---- MODULE Spec2Model ----
(***************************************************************************)
(* Model of the V.A.L.O. photo editor session: the OperationWindow of      *)
(* src/frontend/operation.py (params, base-layer stack, undo/redo history, *)
(* background-removal worker, crop overlay) and the pixel pipeline of      *)
(* src/backend/main.py that it drives.                                     *)
(*                                                                         *)
(* The window object is one record, win; every handler of the class is an  *)
(* operator from a window record to the window record it leaves behind, so *)
(* a handler's effect can be stated both as a step of the session and as a *)
(* function of the state it is invoked in.                                 *)
(*                                                                         *)
(* Python indexes lists from 0, TLA+ sequences from 1: history[hist_idx]   *)
(* of the source is history[hist_idx + 1] here; base_idx and hist_idx keep *)
(* the source's 0-based values (-1 = none).                                *)
(*                                                                         *)
(* Normalized crop coordinates (floats in [0,1]) are kept in hundredths.   *)
(***************************************************************************)
EXTENDS Integers, Sequences, FiniteSets, TLC

VARIABLES win, pc, steps, home, call

vars == <<win, pc, steps, home, call>>

(***************************************************************************)
(* Bounds of the exploration.                                              *)
(***************************************************************************)
\* events a session handles after the window is shown
MaxSteps == 9
\* an export is explored in the sessions of at most this many events
MaxExportSteps == 6

\* values a slider or spin box is moved to, and the controls that are moved
SliderVals == {0, 20}
SliderKeysUsed == {"brightness", "red"}
PresetsUsed == {"none", "noir"}
CropLabelsUsed == {"Original", "Square"}
\* sizes (W, H) of the image handed to the window
ImageSizes == {<<8, 6>>}
ExportPathsUsed == {<<>>, <<"image_01", "png">>, <<"image_01", "jpg">>, <<"image_01", "txt">>}

\* a backend function called on its own: image sides 1..MaxDim, paddings
\* 0..MaxPad, normalized crop coordinates (hundredths) from CropCoords
MaxDim == 6
MaxPad == 10
CropCoords == {0, 50, 100}

(***************************************************************************)
(* UIParams (dataclass) and its neutral value.                             *)
(***************************************************************************)
CropDisabled == [enabled |-> FALSE, x |-> 0, y |-> 0, w |-> 100, h |-> 100]

UIParams ==
    [brightness |-> 0, sharpness |-> 0, denoise |-> 0,
     red |-> 0, green |-> 0, blue |-> 0,
     mono |-> FALSE, preset |-> "none",
     crop_ratio |-> "Original", crop |-> CropDisabled]

UIParamsFields == DOMAIN UIParams

\* Python's None where a crop dict is expected: a dict with no keys
NoneCrop == [k \in {} |-> 0]

\* HistoryState(base_idx, params)
HistoryState(b, p) == [base_idx |-> b, params |-> p]

(***************************************************************************)
(* Arrays.  An ndarray is its shape (W, H, C channels) and, for content,   *)
(* the sequence of operator applications that produced it.  A 4-channel    *)
(* array carries the derivation of its alpha plane separately.             *)
(***************************************************************************)
NoneArr == [W |-> 0, H |-> 0, C |-> 0, data |-> <<>>, alpha |-> <<>>]

Op(name, arg) == [op |-> name, arg |-> arg]

Applied(img, name, arg) == [img EXCEPT !.data = Append(@, Op(name, arg))]

Max2(a, b) == IF a >= b THEN a ELSE b
Min2(a, b) == IF a <= b THEN a ELSE b
Clip(v, lo, hi) == Max2(lo, Min2(v, hi))

\* qpixmap_to_bgr: a valid pixmap gives a 3-channel BGR array
qpixmap_to_bgr(size) ==
    [W |-> size[1], H |-> size[2], C |-> 3,
     data |-> <<Op("qpixmap_to_bgr", <<size[1], size[2]>>)>>, alpha |-> <<>>]

\* split_bgra: (bgr, alpha) of a 4-channel array, (img, None) otherwise
split_bgra(img) ==
    IF img.C = 4
    THEN <<[img EXCEPT !.C = 3, !.alpha = <<>>],
           [W |-> img.W, H |-> img.H, C |-> 1, data |-> img.alpha, alpha |-> <<>>]>>
    ELSE <<img, NoneArr>>

\* merge_bgra: bgr with the alpha plane attached, bgr itself when alpha is None
merge_bgra(bgr, alpha) ==
    IF alpha = NoneArr THEN bgr
    ELSE [bgr EXCEPT !.C = 4, !.alpha = alpha.data]

(***************************************************************************)
(* backend/main.py: the pixel operators, as derivation steps, and the      *)
(* pipeline process_image that composes them.                              *)
(***************************************************************************)
(* Pixel arithmetic.  A uint8 pixel is an integer of PixelValues.  A float32 *)
(* is a pair <<m, k>> standing for m / 2^k, with a 24-bit mantissa          *)
(* 2^23 <= m <= 2^24, or <<0, 0>> for zero; every operation rounds its      *)
(* exact result to the nearest such value, ties to the even mantissa.       *)
PixelValues == 0..255

RECURSIVE Pow2(_)
Pow2(n) == IF n = 0 THEN 1 ELSE 2 * Pow2(n - 1)

RoundUp(m, rem, half) == IF rem > half \/ (rem = half /\ m % 2 = 1) THEN 1 ELSE 0

\* binary long division by 255.0 until the quotient m has 24 bits
RECURSIVE DivBits(_, _, _)
DivBits(m, r, k) ==
    IF m >= Pow2(23) THEN <<m, r, k>>
    ELSE LET bit == IF 2 * r >= 255 THEN 1 ELSE 0
         IN DivBits(2 * m + bit, 2 * r - 255 * bit, k + 1)

\* img.astype(np.float32) / 255.0 that drops the bits after the 24th
astype_float32_truncating(v) ==
    IF v = 0 THEN <<0, 0>>
    ELSE LET q == DivBits(v \div 255, v % 255, 0) IN <<q[1], q[3]>>

\* img.astype(np.float32) / 255.0 for one pixel
astype_float32_div255(v) ==
    IF v = 0 THEN <<0, 0>>
    ELSE LET q == DivBits(v \div 255, v % 255, 0)
         IN <<q[1] + RoundUp(q[1], 2 * q[2], 255), q[3]>>

\* x * 255.0: the 32-bit product, in two 12-bit limbs, rounded to 24 bits
f32_times_255(x) ==
    IF x[1] = 0 THEN x
    ELSE LET low == (x[1] % 4096) * 255
             hi == (x[1] \div 4096) * 255 + low \div 4096
             lo == low % 4096
             d == IF hi >= Pow2(19) THEN 8 ELSE 7
             m == hi * Pow2(12 - d) + lo \div Pow2(d)
         IN <<m + RoundUp(m, lo % Pow2(d), Pow2(d - 1)), x[2] - d>>

\* astype(np.uint8) of a float32 in 0..255: the fraction is dropped
astype_uint8(x) == x[1] \div Pow2(x[2])

\* apply_brightness with value 0 on one pixel: factor = 1.0 + 0/100.0 = 1.0,
\* the product of a float32 with 1.0 is that float32, then np.clip(out, 0, 1)
brightness_pixel_neutral(v) ==
    LET x == astype_float32_div255(v)
        clipped == IF x[2] <= 23 /\ x[1] > Pow2(x[2]) THEN <<Pow2(23), 23>> ELSE x
    IN astype_uint8(f32_times_255(clipped))

\* apply_rgb with r = g = b = 0 on one pixel: img.astype(np.float32) is exact
\* for an integer below 2^24, every factor is 1 + 0/100.0 = 1.0, then
\* np.clip(img, 0, 255) and astype(np.uint8)
rgb_pixel_neutral(v) ==
    LET k == CHOOSE n \in 0..23 : v = 0 \/ (v * Pow2(n) >= Pow2(23) /\ v * Pow2(n) < Pow2(24))
        x == IF v = 0 THEN <<0, 0>> ELSE <<v * Pow2(k), k>>
        clipped == IF x[2] <= 15 /\ x[1] > 255 * Pow2(x[2]) THEN <<255 * Pow2(16), 16>> ELSE x
    IN astype_uint8(clipped)

\* the neutral tone stage and the neutral channel balance return every pixel
NeutralToneExact == \A v \in PixelValues : brightness_pixel_neutral(v) = v
NeutralBalanceExact == \A v \in PixelValues : rgb_pixel_neutral(v) = v

\* a stage with other values is a derivation step; with the neutral value it
\* is one too unless it returns every pixel value
apply_brightness(img, value) ==
    IF Clip(value, -100, 100) = 0 /\ NeutralToneExact THEN img
    ELSE Applied(img, "apply_brightness", <<Clip(value, -100, 100)>>)

apply_sharpness(img, value) ==
    IF Clip(value, -100, 100) = 0 THEN img
    ELSE Applied(img, "apply_sharpness", <<Clip(value, -100, 100)>>)

KernelSize(value) == Max2(1, (value \div 10) * 2 + 1)

apply_blur(img, value) ==
    IF value <= 0 THEN img ELSE Applied(img, "apply_blur", <<KernelSize(value)>>)

apply_noise_reduction(img, value) ==
    IF value <= 0 THEN img ELSE Applied(img, "apply_noise_reduction", <<KernelSize(value)>>)

apply_rgb(img, r, g, b) ==
    IF r = 0 /\ g = 0 /\ b = 0 /\ NeutralBalanceExact THEN img
    ELSE Applied(img, "apply_rgb", <<r, g, b>>)

apply_grayscale(img) == Applied(img, "apply_grayscale", <<>>)

apply_preset(img, preset) ==
    IF preset = "dramatic-warm" THEN Applied(img, "apply_preset", <<1>>)
    ELSE IF preset = "dramatic-cool" THEN Applied(img, "apply_preset", <<2>>)
    ELSE IF preset = "noir" THEN Applied(img, "apply_preset", <<3>>)
    ELSE img

\* CropPixels that leaves out the last column and row of the remaining frame
CropPixelsExclusive(W, H, crop) ==
    LET x == (Clip(crop.x, 0, 100) * W) \div 100
        y == (Clip(crop.y, 0, 100) * H) \div 100
        cw == (Clip(crop.w, 0, 100) * W) \div 100
        ch == (Clip(crop.h, 0, 100) * H) \div 100
    IN <<x, y, Max2(1, Min2(cw, W - x) - 1), Max2(1, Min2(ch, H - y) - 1)>>

\* the pixel rectangle (x, y, cw, ch) a normalized crop selects in a W x H frame
CropPixels(W, H, crop) ==
    LET x == (Clip(crop.x, 0, 100) * W) \div 100
        y == (Clip(crop.y, 0, 100) * H) \div 100
        cw == (Clip(crop.w, 0, 100) * W) \div 100
        ch == (Clip(crop.h, 0, 100) * H) \div 100
    IN <<x, y, Max2(1, Min2(cw, W - x)), Max2(1, Min2(ch, H - y))>>

\* img[y:y+ch, x:x+cw]: numpy clamps the slice to the array; a slice that
\* covers the whole array has the array's content
CropSlice(img, r) ==
    IF r[1] = 0 /\ r[2] = 0 /\ r[3] >= img.W /\ r[4] >= img.H THEN img
    ELSE [img EXCEPT !.W = Max2(0, Min2(img.W, r[1] + r[3]) - Min2(img.W, r[1])),
                     !.H = Max2(0, Min2(img.H, r[2] + r[4]) - Min2(img.H, r[2])),
                     !.data = Append(@, Op("crop", r)),
                     !.alpha = IF @ = <<>> THEN @ ELSE Append(@, Op("crop", r))]

\* backend apply_crop
apply_crop(img, crop) ==
    IF DOMAIN crop = {} \/ ~crop.enabled THEN img
    ELSE CropSlice(img, CropPixels(img.W, img.H, crop))

\* frontend apply_crop_local
apply_crop_local(img, crop) ==
    IF img = NoneArr THEN img
    ELSE IF DOMAIN crop = {} \/ ~crop.enabled THEN img
    ELSE CropSlice(img, CropPixels(img.W, img.H, crop))

\* params.get(key, default) of a dict
Get(p, key, default) == IF key \in DOMAIN p THEN p[key] ELSE default

\* process_image that applies the channel balance under every preset
process_image_always_rgb(img0, params) ==
    LET img1 == apply_brightness(img0, Get(params, "brightness", 0))
        img2 == apply_sharpness(img1, Get(params, "sharpness", 0))
        img3 == apply_noise_reduction(img2, Get(params, "denoise", 0))
        img4 == apply_blur(img3, Get(params, "blur", 0))
        preset == Get(params, "preset", "none")
        img5 == IF preset # "none"
                THEN IF preset = "mono" THEN apply_grayscale(img4)
                     ELSE apply_preset(img4, preset)
                ELSE img4
        img6 == apply_rgb(img5, Get(params, "red", 0), Get(params, "green", 0),
                          Get(params, "blue", 0))
    IN apply_crop(img6, Get(params, "crop", NoneCrop))

\* process_image that crops before the channel balance
process_image_crop_first(img0, params) ==
    LET img1 == apply_brightness(img0, Get(params, "brightness", 0))
        img2 == apply_sharpness(img1, Get(params, "sharpness", 0))
        img3 == apply_noise_reduction(img2, Get(params, "denoise", 0))
        img4 == apply_blur(img3, Get(params, "blur", 0))
        preset == Get(params, "preset", "none")
        img5 == IF preset # "none"
                THEN IF preset = "mono" THEN apply_grayscale(img4)
                     ELSE apply_preset(img4, preset)
                ELSE img4
        img6 == apply_crop(img5, Get(params, "crop", NoneCrop))
    IN IF preset \in {"none", "dramatic-warm", "dramatic-cool"}
       THEN apply_rgb(img6, Get(params, "red", 0), Get(params, "green", 0),
                      Get(params, "blue", 0))
       ELSE img6

process_image(img0, params) ==
    LET img1 == apply_brightness(img0, Get(params, "brightness", 0))
        img2 == apply_sharpness(img1, Get(params, "sharpness", 0))
        img3 == apply_noise_reduction(img2, Get(params, "denoise", 0))
        img4 == apply_blur(img3, Get(params, "blur", 0))
        preset == Get(params, "preset", "none")
        img5 == IF preset # "none"
                THEN IF preset = "mono" THEN apply_grayscale(img4)
                     ELSE apply_preset(img4, preset)
                ELSE img4
        img6 == IF preset \in {"none", "dramatic-warm", "dramatic-cool"}
                THEN apply_rgb(img5, Get(params, "red", 0), Get(params, "green", 0),
                               Get(params, "blue", 0))
                ELSE img5
    IN apply_crop(img6, Get(params, "crop", NoneCrop))

\* the rectangle (x, y, rw, rh) remove_background hands to cv2.grabCut
GrabCutRect(W, H, rect_pad) ==
    <<rect_pad, rect_pad, Max2(1, W - 2 * rect_pad), Max2(1, H - 2 * rect_pad)>>

\* x | 1 for an integer x >= 0
OrOne(x) == IF x % 2 = 0 THEN x + 1 ELSE x

\* RefineKernels without the bias toward odd sizes
refine_kernels_unbiased(W, H) ==
    LET k == Max2(3, Min2(H, W) \div 100)
    IN <<k, Max2(3, k \div 2), k>>

\* the kernel sizes (k, erode_k, blur_k) of the refinement in remove_background;
\* int(min(h, w) * 0.01) is min(h, w) div 100 for every size up to 200000
RefineKernels(W, H) ==
    LET k == Max2(3, OrOne(Min2(H, W) \div 100))
    IN <<k, Max2(3, OrOne(k \div 2)), Max2(3, OrOne(Min2(H, W) \div 100))>>

\* remove_background (rect_pad=10, iter_count=5): the BGR channels unchanged, an
\* alpha plane computed from them by GrabCut started on the rectangle
remove_background(img) ==
    [img EXCEPT !.C = 4,
                !.alpha = Append(img.data,
                                 Op("remove_background",
                                    GrabCutRect(img.W, img.H, 10) \o <<5>>
                                        \o RefineKernels(img.W, img.H)))]

(***************************************************************************)
(* CropStageLabel: the crop overlay.  Rectangles are kept in normalized    *)
(* hundredths of the drawn pixmap; NullRect is QRect().                    *)
(***************************************************************************)
NullRect == [x |-> 0, y |-> 0, w |-> 0, h |-> 0]

\* boxes a drag of the overlay leaves behind
DragBoxes == {[x |-> 0, y |-> 50, w |-> 50, h |-> 50]}

\* drag modes mousePressEvent's hit test selects ("br" stands for the eight handles)
DragModes == {"move", "br"}

\* self._aspect: None, or the locked ratio w/h as <<numerator, denominator>>
NoAspect == <<>>

CropStageLabel ==
    [overlay_enabled |-> FALSE, crop_rect |-> NullRect, dragging |-> FALSE,
     drag_mode |-> "None", aspect |-> NoAspect, told_custom |-> FALSE]

(***************************************************************************)
(* RemoveBgWorker and its thread: "none" (no task), "running" (run() is    *)
(* computing), "finished" / "error" (the signal is emitted and queued for  *)
(* the window's thread).                                                   *)
(***************************************************************************)
NoWorker == [state |-> "none", bgr_img |-> NoneArr, out |-> NoneArr]

(***************************************************************************)
(* OperationWindow.__init__, up to the "Load image" step.                  *)
(***************************************************************************)
OperationWindow ==
    [params |-> UIParams,
     current_tab |-> "adjust",
     base_images |-> <<>>,
     base_idx |-> -1,
     stage_pixmap_source |-> NoneArr,
     remove_running |-> FALSE,
     remove_cancelled |-> FALSE,
     remove_worker |-> NoWorker,
     remove_preview_bgra |-> NoneArr,
     remove_dirty |-> FALSE,
     crop_dirty |-> FALSE,
     history |-> <<>>,
     hist_idx |-> -1,
     suspend_history |-> FALSE,
     stage_label |-> CropStageLabel,
     \* widget state: tabs, presets and pages disabled / Start disabled / Cancel enabled
     ui_locked |-> FALSE,
     remove_apply_enabled |-> FALSE,
     crop_apply_enabled |-> FALSE,
     undo_enabled |-> FALSE,
     redo_enabled |-> FALSE,
     remove_status |-> "Ready"]

\* list[i] of Python, i counted from 0, negative i from the end
PyIndex(list, i) == IF i >= 0 THEN list[i + 1] ELSE list[Len(list) + i + 1]

(***************************************************************************)
(* Base + render                                                           *)
(***************************************************************************)
_current_base(w) == PyIndex(w.base_images, w.base_idx)

\* asdict(self.params)
_snapshot_params(w) == [k \in DOMAIN w.params |-> w.params[k]]

\* _render_current_preview that renders over the pixmap on the stage
render_over_shown(w) ==
    LET sp == split_bgra(IF w.stage_pixmap_source = NoneArr THEN _current_base(w)
                         ELSE w.stage_pixmap_source)
        p == [_snapshot_params(w) EXCEPT !["crop"] = NoneCrop]
    IN merge_bgra(process_image(sp[1], p), sp[2])

\* _render_current_preview that hands the crop rect to the pipeline
render_with_crop(w) ==
    LET sp == split_bgra(_current_base(w))
    IN merge_bgra(process_image(sp[1], _snapshot_params(w)), sp[2])

_render_current_preview(w) ==
    LET base == _current_base(w)
        sp == split_bgra(base)
        p == [_snapshot_params(w) EXCEPT !["crop"] = NoneCrop]
    IN merge_bgra(process_image(sp[1], p), sp[2])

set_stage_pixmap(w, pix) ==
    IF pix = NoneArr THEN w ELSE [w EXCEPT !.stage_pixmap_source = pix]

update_preview(w) ==
    IF w.base_idx < 0 THEN w ELSE set_stage_pixmap(w, _render_current_preview(w))

(***************************************************************************)
(* Apply button enable rules                                               *)
(***************************************************************************)
_can_apply_crop(w) == DOMAIN w.params.crop # {} /\ w.params.crop.enabled

_refresh_apply_buttons(w) ==
    [w EXCEPT
       !.remove_apply_enabled =
           /\ w.current_tab = "removebg"
           /\ ~w.remove_running
           /\ w.remove_preview_bgra # NoneArr
           /\ w.remove_dirty,
       !.crop_apply_enabled =
           /\ w.current_tab = "crop"
           /\ ~w.remove_running
           /\ _can_apply_crop(w)
           /\ w.crop_dirty]

(***************************************************************************)
(* History (undo/redo)                                                     *)
(***************************************************************************)
_update_undo_redo_buttons(w) ==
    [w EXCEPT !.undo_enabled = w.hist_idx > 0,
              !.redo_enabled = w.hist_idx < Len(w.history) - 1]

\* _push_history that keeps the snapshots after the cursor
push_without_truncation(w) ==
    IF w.suspend_history THEN w
    ELSE LET st == HistoryState(w.base_idx, _snapshot_params(w))
         IN IF /\ w.history # <<>>
               /\ PyIndex(w.history, w.hist_idx).base_idx = st.base_idx
               /\ PyIndex(w.history, w.hist_idx).params = st.params
            THEN w
            ELSE _update_undo_redo_buttons(
                     [w EXCEPT !.history = Append(w.history, st),
                               !.hist_idx = Len(w.history)])

\* _push_history that stores a snapshot equal to the one at the cursor
push_without_dedup(w) ==
    IF w.suspend_history THEN w
    ELSE LET st == HistoryState(w.base_idx, _snapshot_params(w))
             kept == IF w.hist_idx < Len(w.history) - 1
                     THEN SubSeq(w.history, 1, w.hist_idx + 1)
                     ELSE w.history
         IN _update_undo_redo_buttons(
                [w EXCEPT !.history = Append(kept, st),
                          !.hist_idx = Len(kept)])

\* _push_history that leaves the cursor where it was
push_keeping_cursor(w) ==
    IF w.suspend_history THEN w
    ELSE LET st == HistoryState(w.base_idx, _snapshot_params(w))
         IN IF /\ w.history # <<>>
               /\ PyIndex(w.history, w.hist_idx).base_idx = st.base_idx
               /\ PyIndex(w.history, w.hist_idx).params = st.params
            THEN w
            ELSE LET kept == IF w.hist_idx < Len(w.history) - 1
                             THEN SubSeq(w.history, 1, w.hist_idx + 1)
                             ELSE w.history
                 IN _update_undo_redo_buttons([w EXCEPT !.history = Append(kept, st)])

_push_history(w) ==
    IF w.suspend_history THEN w
    ELSE LET st == HistoryState(w.base_idx, _snapshot_params(w))
         IN IF /\ w.history # <<>>
               /\ PyIndex(w.history, w.hist_idx).base_idx = st.base_idx
               /\ PyIndex(w.history, w.hist_idx).params = st.params
            THEN w
            ELSE LET kept == IF w.hist_idx < Len(w.history) - 1
                             THEN SubSeq(w.history, 1, w.hist_idx + 1)
                             ELSE w.history
                 IN _update_undo_redo_buttons(
                        [w EXCEPT !.history = Append(kept, st),
                                  !.hist_idx = Len(kept)])

_set_active_preset(w, preset) == [w EXCEPT !.params.preset = preset]

_set_active_crop(w, label) == [w EXCEPT !.params.crop_ratio = label]

set_overlay_enabled(w, enabled) == [w EXCEPT !.stage_label.overlay_enabled = enabled]

open_tab(w, name) ==
    IF w.remove_running THEN w
    ELSE LET w1 == [w EXCEPT !.current_tab = name]
             w2 == set_overlay_enabled(w1, name = "crop" /\ w1.params.crop_ratio # "Original")
             w3 == IF name # "crop" THEN set_overlay_enabled(w2, FALSE) ELSE w2
         IN update_preview(_refresh_apply_buttons(w3))

\* _restore_history that drops the base layers above the restored one
restore_dropping_layers(w, idx) ==
    IF idx < 0 \/ idx >= Len(w.history) THEN w
    ELSE LET st == PyIndex(w.history, idx)
             p == st.params
             w1 == [w EXCEPT !.hist_idx = idx,
                             !.base_idx = st.base_idx,
                             !.base_images = SubSeq(@, 1, st.base_idx + 1),
                             !.params = [k \in UIParamsFields |->
                                            IF k \in DOMAIN p THEN p[k] ELSE UIParams[k]]]
             w2 == _set_active_crop(_set_active_preset(w1, w1.params.preset),
                                    w1.params.crop_ratio)
         IN _update_undo_redo_buttons(
                update_preview(_refresh_apply_buttons(open_tab(w2, w.current_tab))))

\* _restore_history that leaves the active base index as it is
restore_keeps_base(w, idx) ==
    IF idx < 0 \/ idx >= Len(w.history) THEN w
    ELSE LET st == PyIndex(w.history, idx)
             w1 == [w EXCEPT !.hist_idx = idx,
                             !.params = [k \in UIParamsFields |->
                                            IF k \in DOMAIN st.params THEN st.params[k]
                                            ELSE UIParams[k]]]
         IN _update_undo_redo_buttons(
                update_preview(_refresh_apply_buttons(open_tab(w1, w.current_tab))))

_restore_history(w, idx) ==
    IF idx < 0 \/ idx >= Len(w.history) THEN w
    ELSE LET st == PyIndex(w.history, idx)
             cur_tab == w.current_tab
             p == st.params
             w1 == [w EXCEPT !.hist_idx = idx,
                             !.suspend_history = TRUE,
                             !.base_idx = st.base_idx,
                             !.params = [k \in UIParamsFields |->
                                            IF k \in DOMAIN p THEN p[k] ELSE UIParams[k]]]
             w2 == _set_active_preset(w1, w1.params.preset)
             w3 == _set_active_crop(w2, w2.params.crop_ratio)
             w4 == open_tab(w3, cur_tab)
             w5 == [w4 EXCEPT !.suspend_history = FALSE]
         IN _update_undo_redo_buttons(update_preview(_refresh_apply_buttons(w5)))

\* _undo that stores the current state before it steps back
undo_saving_current(w) ==
    IF w.remove_running THEN w
    ELSE IF w.hist_idx <= 0 THEN w
    ELSE _restore_history(_push_history(w), w.hist_idx - 1)

\* _undo without the check of _remove_running
undo_while_running(w) ==
    IF w.hist_idx <= 0 THEN w
    ELSE _restore_history(w, w.hist_idx - 1)

_undo(w) ==
    IF w.remove_running THEN w
    ELSE IF w.hist_idx <= 0 THEN w
    ELSE _restore_history(w, w.hist_idx - 1)

_redo(w) ==
    IF w.remove_running THEN w
    ELSE IF w.hist_idx >= Len(w.history) - 1 THEN w
    ELSE _restore_history(w, w.hist_idx + 1)

\* set_original_image that stores no initial snapshot
load_without_snapshot(w, size) ==
    update_preview([w EXCEPT !.base_images = <<qpixmap_to_bgr(size)>>,
                             !.base_idx = 0,
                             !.params = UIParams,
                             !.history = <<>>,
                             !.hist_idx = -1])

set_original_image(w, size) ==
    LET base == qpixmap_to_bgr(size)
        w1 == [w EXCEPT !.base_images = <<base>>,
                        !.base_idx = 0,
                        !.params = UIParams,
                        !.history = <<>>,
                        !.hist_idx = -1]
    IN update_preview(_push_history(w1))

(***************************************************************************)
(* Sliders (history on finalize)                                           *)
(***************************************************************************)
\* set_value that also records the change in the history
set_value_pushing(w, key, v) == _push_history(update_preview([w EXCEPT !.params[key] = v]))

\* set_value, with the update_preview that sig_params_changed triggers
set_value(w, key, v) == update_preview([w EXCEPT !.params[key] = v])

\* slider.setValue(v): valueChanged is emitted only when the value changes
slider_setValue(w, key, v) == IF w.params[key] = v THEN w ELSE set_value(w, key, v)

\* reset.clicked
reset_clicked(w, key) == _push_history(slider_setValue(w, key, 0))

(***************************************************************************)
(* Filter presets                                                          *)
(***************************************************************************)
\* _on_preset_clicked that puts red, green and blue back to zero
preset_resetting_rgb(w, preset) ==
    LET w1 == _set_active_preset(w, preset)
        w2 == [w1 EXCEPT !.params.mono = (preset = "mono"),
                         !.params.red = 0, !.params.green = 0, !.params.blue = 0]
    IN _push_history(update_preview(w2))

_on_preset_clicked(w, preset) ==
    LET w1 == _set_active_preset(w, preset)
        w2 == [w1 EXCEPT !.params.mono = (preset = "mono")]
    IN _push_history(update_preview(w2))

(***************************************************************************)
(* Crop ratio + crop updates                                               *)
(***************************************************************************)
\* _on_crop_changed that writes the rect into the dict of the snapshot at the
\* cursor as well
crop_changed_in_place(w, crop_dict) ==
    LET w1 == [w EXCEPT !.params.crop = crop_dict]
        w2 == IF Get(crop_dict, "enabled", FALSE) THEN [w1 EXCEPT !.crop_dirty = TRUE] ELSE w1
        w3 == IF w2.hist_idx >= 0
              THEN [w2 EXCEPT !.history[w2.hist_idx + 1].params.crop = crop_dict]
              ELSE w2
    IN _refresh_apply_buttons(w3)

_on_crop_changed(w, crop_dict) ==
    LET w1 == [w EXCEPT !.params.crop = crop_dict]
        w2 == IF Get(crop_dict, "enabled", FALSE) THEN [w1 EXCEPT !.crop_dirty = TRUE] ELSE w1
    IN _refresh_apply_buttons(w2)

set_aspect_ratio(w, aspect) ==
    [w EXCEPT !.stage_label.aspect = aspect, !.stage_label.told_custom = FALSE]

clear_crop(w) ==
    _on_crop_changed([w EXCEPT !.stage_label.crop_rect = NullRect,
                              !.stage_label.told_custom = FALSE],
                    CropDisabled)

\* _pixmap_draw_rect().isNull(): the label shows no pixmap
draw_isNull(w) == w.stage_pixmap_source = NoneArr

_emit_normalized(w) ==
    LET r == w.stage_label.crop_rect
    IN IF draw_isNull(w) \/ r = NullRect THEN w
       ELSE IF r.w < 2 \/ r.h < 2 THEN w
       ELSE _on_crop_changed(w, [enabled |-> TRUE,
                                x |-> Max2(0, Min2(100, r.x)),
                                y |-> Max2(0, Min2(100, r.y)),
                                w |-> Max2(0, Min2(100, r.w)),
                                h |-> Max2(0, Min2(100, r.h))])

\* the centred box of ensure_crop_box, in hundredths of the drawn frame, whose
\* sides are in the ratio W : H of the pixmap
CentredBox(W, H, aspect) ==
    LET w0 == 80 * W
        h0 == IF aspect = NoAspect THEN 80 * H ELSE (w0 * aspect[2]) \div aspect[1]
        fit == aspect = NoAspect \/ h0 <= 80 * H
        bh == IF fit THEN h0 ELSE 80 * H
        bw == IF fit THEN w0 ELSE (bh * aspect[1]) \div aspect[2]
        nw == bw \div W
        nh == bh \div H
    IN [x |-> 50 - nw \div 2, y |-> 50 - nh \div 2, w |-> nw, h |-> nh]

ensure_crop_box(w, mode) ==
    IF draw_isNull(w) THEN w
    ELSE LET a == IF mode = "custom" \/ w.stage_label.aspect = NoAspect
                  THEN NoAspect ELSE w.stage_label.aspect
             box == CentredBox(w.stage_pixmap_source.W, w.stage_pixmap_source.H, a)
         IN _emit_normalized([w EXCEPT !.stage_label.crop_rect = box,
                                      !.stage_label.told_custom = FALSE])

aspect_map(label) ==
    CASE label = "Square" -> <<1, 1>>
      [] label = "9:16" -> <<9, 16>>
      [] label = "4:5" -> <<4, 5>>
      [] label = "5:7" -> <<5, 7>>
      [] label = "3:4" -> <<3, 4>>
      [] label = "3:5" -> <<3, 5>>
      [] label = "2:3" -> <<2, 3>>
      [] OTHER -> NoAspect

\* _on_crop_ratio that stores a snapshot of the picked ratio
crop_ratio_pushing(w, label) ==
    LET w1 == _set_active_crop(w, label)
    IN IF label = "Original"
       THEN _push_history(_refresh_apply_buttons(
                [set_overlay_enabled(clear_crop(w1), FALSE) EXCEPT !.crop_dirty = FALSE]))
       ELSE LET w2 == set_aspect_ratio(set_overlay_enabled(w1, TRUE), aspect_map(label))
                w3 == IF label = "Custom" THEN ensure_crop_box(w2, "custom")
                      ELSE ensure_crop_box(w2, "aspect")
            IN _push_history(_refresh_apply_buttons([w3 EXCEPT !.crop_dirty = TRUE]))

_on_crop_ratio(w, label) ==
    LET w1 == _set_active_crop(w, label)
    IN IF label = "Original"
       THEN _refresh_apply_buttons(
                [set_overlay_enabled(clear_crop(w1), FALSE) EXCEPT !.crop_dirty = FALSE])
       ELSE LET w2 == set_aspect_ratio(set_overlay_enabled(w1, TRUE), aspect_map(label))
                w3 == IF label = "Custom" THEN ensure_crop_box(w2, "custom")
                      ELSE ensure_crop_box(w2, "aspect")
            IN _refresh_apply_buttons([w3 EXCEPT !.crop_dirty = TRUE])

_force_crop_custom(w) ==
    IF w.params.crop_ratio # "Custom"
    THEN _refresh_apply_buttons(
             [set_aspect_ratio(_set_active_crop(w, "Custom"), NoAspect) EXCEPT !.crop_dirty = TRUE])
    ELSE w

_notify_custom_once(w) ==
    IF ~w.stage_label.told_custom
    THEN _force_crop_custom([w EXCEPT !.stage_label.told_custom = TRUE])
    ELSE w

\* inside: the press is on the drawn pixmap; hit: what _hit_test finds there
mousePressEvent(w, inside, hit) ==
    IF ~w.stage_label.overlay_enabled THEN w
    ELSE IF draw_isNull(w) THEN w
    ELSE IF ~inside THEN w
    ELSE LET w1 == IF w.stage_label.crop_rect = NullRect
                   THEN ensure_crop_box(w, IF w.stage_label.aspect = NoAspect
                                           THEN "custom" ELSE "aspect")
                   ELSE w
         IN IF hit = "None" \/ w1.stage_label.crop_rect = NullRect THEN w1
            ELSE [w1 EXCEPT !.stage_label.dragging = TRUE, !.stage_label.drag_mode = hit]

\* box: the rectangle the pointer position gives, already clamped to the frame
mouseMoveEvent(w, box) ==
    IF ~w.stage_label.overlay_enabled \/ ~w.stage_label.dragging THEN w
    ELSE IF draw_isNull(w) \/ w.stage_label.crop_rect = NullRect THEN w
    ELSE IF w.stage_label.drag_mode = "move"
         THEN LET r0 == w.stage_label.crop_rect
              IN _emit_normalized([w EXCEPT !.stage_label.crop_rect =
                                     [x |-> Max2(0, Min2(box.x, 100 - r0.w)),
                                      y |-> Max2(0, Min2(box.y, 100 - r0.h)),
                                      w |-> r0.w, h |-> r0.h]])
         ELSE LET w1 == IF w.stage_label.aspect # NoAspect
                        THEN _notify_custom_once([w EXCEPT !.stage_label.aspect = NoAspect])
                        ELSE w
              IN _emit_normalized([w1 EXCEPT !.stage_label.crop_rect = box])

mouseReleaseEvent(w) ==
    IF ~w.stage_label.overlay_enabled THEN w
    ELSE _emit_normalized([w EXCEPT !.stage_label.dragging = FALSE,
                                   !.stage_label.drag_mode = "None"])

(***************************************************************************)
(* Remove BG                                                               *)
(***************************************************************************)
_set_ui_locked(w, locked) ==
    _update_undo_redo_buttons(_refresh_apply_buttons([w EXCEPT !.ui_locked = locked]))

\* _on_removebg_start without the check of _remove_running
start_while_running(w) ==
    IF w.base_idx < 0 THEN w
    ELSE LET bgr == split_bgra(_render_current_preview(w))[1]
             w1 == [w EXCEPT !.remove_running = TRUE,
                             !.remove_cancelled = FALSE,
                             !.remove_preview_bgra = NoneArr,
                             !.remove_dirty = FALSE]
             w2 == [_refresh_apply_buttons(w1) EXCEPT !.remove_status = "Removing..."]
         IN [_set_ui_locked(w2, TRUE) EXCEPT !.remove_worker =
                 [state |-> "running", bgr_img |-> bgr, out |-> NoneArr]]

_on_removebg_start(w) ==
    IF w.remove_running \/ w.base_idx < 0 THEN w
    ELSE LET preview == _render_current_preview(w)
             bgr == split_bgra(preview)[1]
             w1 == [w EXCEPT !.remove_running = TRUE,
                             !.remove_cancelled = FALSE,
                             !.remove_preview_bgra = NoneArr,
                             !.remove_dirty = FALSE]
             w2 == [_refresh_apply_buttons(w1) EXCEPT !.remove_status = "Removing..."]
             w3 == _set_ui_locked(w2, TRUE)
         IN [w3 EXCEPT !.remove_worker =
                 [state |-> "running", bgr_img |-> bgr, out |-> NoneArr]]

\* _on_removebg_cancel that ends the removal state at once
cancel_unlocking(w) ==
    IF ~w.remove_running THEN w
    ELSE _set_ui_locked([w EXCEPT !.remove_running = FALSE,
                                  !.remove_cancelled = TRUE,
                                  !.remove_status = "Cancelling..."], FALSE)

_on_removebg_cancel(w) ==
    IF ~w.remove_running THEN w
    ELSE [w EXCEPT !.remove_cancelled = TRUE, !.remove_status = "Cancelling..."]

\* _on_removebg_finished that stores the result as a base layer at once
finished_committing(w, bgra_out) ==
    LET w1 == _set_ui_locked([w EXCEPT !.remove_running = FALSE], FALSE)
    IN IF w1.remove_cancelled
       THEN [w1 EXCEPT !.remove_cancelled = FALSE, !.remove_status = "Cancelled"]
       ELSE IF bgra_out = NoneArr
       THEN [w1 EXCEPT !.remove_status = "Failed"]
       ELSE update_preview([w1 EXCEPT !.base_images = Append(@, bgra_out),
                                      !.base_idx = Len(w.base_images),
                                      !.remove_status = "Done"])

\* _on_removebg_finished that leaves the controls locked
finished_staying_locked(w, bgra_out) ==
    LET w1 == [w EXCEPT !.remove_running = FALSE]
    IN IF w1.remove_cancelled
       THEN [w1 EXCEPT !.remove_cancelled = FALSE, !.remove_status = "Cancelled"]
       ELSE IF bgra_out = NoneArr
       THEN [w1 EXCEPT !.remove_status = "Failed"]
       ELSE LET w2 == [w1 EXCEPT !.remove_preview_bgra = bgra_out,
                                 !.remove_dirty = TRUE,
                                 !.remove_status = "Done"]
            IN set_stage_pixmap(_refresh_apply_buttons(w2), bgra_out)

_on_removebg_finished(w, bgra_out) ==
    LET w1 == _set_ui_locked([w EXCEPT !.remove_running = FALSE], FALSE)
    IN IF w1.remove_cancelled
       THEN [w1 EXCEPT !.remove_cancelled = FALSE, !.remove_status = "Cancelled"]
       ELSE IF bgra_out = NoneArr
       THEN [w1 EXCEPT !.remove_status = "Failed"]
       ELSE LET w2 == [w1 EXCEPT !.remove_preview_bgra = bgra_out,
                                 !.remove_dirty = TRUE,
                                 !.remove_status = "Done"]
            IN set_stage_pixmap(_refresh_apply_buttons(w2), bgra_out)

\* _on_removebg_error that reports every failure as a cancellation
error_reports_cancelled(w) ==
    LET w1 == _set_ui_locked([w EXCEPT !.remove_running = FALSE], FALSE)
    IN [w1 EXCEPT !.remove_cancelled = FALSE, !.remove_status = "Cancelled"]

\* _on_removebg_error that leaves the cancel flag set
error_keeping_flag(w) ==
    LET w1 == _set_ui_locked([w EXCEPT !.remove_running = FALSE], FALSE)
    IN IF w1.remove_cancelled
       THEN [w1 EXCEPT !.remove_status = "Cancelled"]
       ELSE [w1 EXCEPT !.remove_status = "Failed"]

_on_removebg_error(w) ==
    LET w1 == _set_ui_locked([w EXCEPT !.remove_running = FALSE], FALSE)
    IN IF w1.remove_cancelled
       THEN [w1 EXCEPT !.remove_cancelled = FALSE, !.remove_status = "Cancelled"]
       ELSE [w1 EXCEPT !.remove_status = "Failed"]

(***************************************************************************)
(* Reset params (after commits)                                            *)
(***************************************************************************)
_reset_params_neutral(w) ==
    LET w1 == [w EXCEPT !.suspend_history = TRUE,
                        !.params.brightness = 0,
                        !.params.sharpness = 0,
                        !.params.denoise = 0,
                        !.params.red = 0,
                        !.params.green = 0,
                        !.params.blue = 0,
                        !.params.mono = FALSE,
                        !.params.preset = "none",
                        !.params.crop_ratio = "Original",
                        !.params.crop = CropDisabled]
        w2 == _set_active_crop(_set_active_preset(w1, "none"), "Original")
    IN [w2 EXCEPT !.suspend_history = FALSE]

\* _apply_removebg without the reset of the params
apply_removebg_keeps_params(w) ==
    IF w.remove_preview_bgra = NoneArr \/ w.remove_running THEN w
    ELSE LET w1 == [w EXCEPT !.base_images = Append(@, w.remove_preview_bgra),
                             !.base_idx = Len(w.base_images),
                             !.remove_preview_bgra = NoneArr,
                             !.remove_dirty = FALSE]
             w2 == [_push_history(w1) EXCEPT !.remove_status = "Applied"]
         IN update_preview(_refresh_apply_buttons(w2))

\* _apply_removebg that stores no snapshot of the new layer
apply_removebg_without_push(w) ==
    IF w.remove_preview_bgra = NoneArr \/ w.remove_running THEN w
    ELSE LET w1 == [w EXCEPT !.base_images = Append(@, w.remove_preview_bgra),
                             !.base_idx = Len(w.base_images),
                             !.remove_preview_bgra = NoneArr,
                             !.remove_dirty = FALSE]
             w3 == [_reset_params_neutral(w1) EXCEPT !.remove_status = "Applied"]
         IN update_preview(_refresh_apply_buttons(w3))

_apply_removebg(w) ==
    IF w.remove_preview_bgra = NoneArr \/ w.remove_running THEN w
    ELSE LET w1 == [w EXCEPT !.base_images = Append(@, w.remove_preview_bgra),
                             !.base_idx = Len(w.base_images),
                             !.remove_preview_bgra = NoneArr,
                             !.remove_dirty = FALSE]
             w2 == _push_history(_reset_params_neutral(w1))
             w3 == [w2 EXCEPT !.remove_status = "Applied"]
         IN update_preview(_refresh_apply_buttons(w3))

(***************************************************************************)
(* Crop apply                                                              *)
(***************************************************************************)
\* _apply_crop that crops the stored base layer instead of the rendered preview
apply_crop_of_base(w) ==
    IF ~_can_apply_crop(w) \/ w.remove_running \/ w.base_idx < 0 THEN w
    ELSE LET sp == split_bgra(_current_base(w))
             cropped_bgr == apply_crop_local(sp[1], w.params.crop)
             cropped == IF sp[2] # NoneArr
                        THEN merge_bgra(cropped_bgr, apply_crop_local(sp[2], w.params.crop))
                        ELSE cropped_bgr
             w1 == [w EXCEPT !.base_images = Append(@, cropped),
                             !.base_idx = Len(w.base_images)]
             w2 == set_overlay_enabled(_set_active_crop(clear_crop(w1), "Original"), FALSE)
             w3 == _reset_params_neutral([w2 EXCEPT !.crop_dirty = FALSE])
         IN update_preview(_refresh_apply_buttons(_push_history(w3)))

\* _apply_crop that leaves the crop rect and its dirty flag as they are
apply_crop_keeping_rect(w) ==
    IF ~_can_apply_crop(w) \/ w.remove_running \/ w.base_idx < 0 THEN w
    ELSE LET preview == _render_current_preview(w)
             sp == split_bgra(preview)
             cropped_bgr == apply_crop_local(sp[1], w.params.crop)
             cropped == IF sp[2] # NoneArr
                        THEN merge_bgra(cropped_bgr, apply_crop_local(sp[2], w.params.crop))
                        ELSE cropped_bgr
             w1 == [w EXCEPT !.base_images = Append(@, cropped),
                             !.base_idx = Len(w.base_images)]
         IN update_preview(_refresh_apply_buttons(_push_history(w1)))

_apply_crop(w) ==
    IF ~_can_apply_crop(w) \/ w.remove_running \/ w.base_idx < 0 THEN w
    ELSE LET preview == _render_current_preview(w)
             sp == split_bgra(preview)
             cropped_bgr == apply_crop_local(sp[1], w.params.crop)
             cropped == IF sp[2] # NoneArr
                        THEN merge_bgra(cropped_bgr, apply_crop_local(sp[2], w.params.crop))
                        ELSE cropped_bgr
             w1 == [w EXCEPT !.base_images = Append(@, cropped),
                             !.base_idx = Len(w.base_images)]
             w2 == set_overlay_enabled(_set_active_crop(clear_crop(w1), "Original"), FALSE)
             w3 == _reset_params_neutral([w2 EXCEPT !.crop_dirty = FALSE])
         IN update_preview(_refresh_apply_buttons(_push_history(w3)))

(***************************************************************************)
(* One call of a backend function on its own: the function, its arguments  *)
(* and, once applied, its result.  NoCall in a session of the windows.     *)
(***************************************************************************)
NoCall == [fn |-> "none", done |-> FALSE]

(***************************************************************************)
(* Export (the Done button).  A path is the sequence of its dot-separated  *)
(* parts, the empty sequence for the empty string of a dismissed dialog.   *)
(* The outcome of a click is what the handler did outside the window: the  *)
(* buffer it handed to cv2.imwrite, what imwrite did, whether sig_done was *)
(* emitted.                                                                *)
(***************************************************************************)
ExportPaths ==
    {<<>>, <<"image_01">>, <<"image_01", "png">>, <<"image_01", "jpg">>,
     <<"image_01", "JPG">>, <<"image_01", "jpeg">>, <<"image_01", "bmp">>,
     <<"image_01", "webp">>, <<"image_01", "txt">>}

\* str.lower() on the parts that occur in ExportPaths
lower(part) == IF part = "JPG" THEN "jpg" ELSE part

\* cv2.imwrite(path, buf): raises when no encoder matches the extension
\* (png, jpg, jpeg, bmp and webp have one), returns False when the file
\* cannot be written, True when it was written
imwrite(path, writable) ==
    IF lower(path[Len(path)]) \notin {"png", "jpg", "jpeg", "bmp", "webp"} THEN "raised"
    ELSE IF writable THEN "True" ELSE "False"

NoExport == [written |-> NoneArr, result |-> "none", sig_done |-> FALSE]

\* save_rendered that hands every buffer to the writer as it is
save_rendered_keeping_alpha(out, path, writable) ==
    IF path = <<>> THEN NoExport
    ELSE LET r == imwrite(path, writable)
         IN [written |-> out, result |-> r, sig_done |-> r # "raised"]

\* the part of _on_done_clicked after the render
save_rendered(out, path, writable) ==
    IF path = <<>> THEN NoExport
    ELSE LET ext == lower(path[Len(path)])
             buf == IF out.C = 4 /\ ext \in {"jpg", "jpeg", "bmp"}
                    THEN split_bgra(out)[1] ELSE out
             r == imwrite(path, writable)
         IN [written |-> buf, result |-> r, sig_done |-> r # "raised"]

\* _on_done_clicked: without a base layer _current_base raises IndexError
_on_done_clicked(w, path, writable) ==
    IF w.base_idx < 0 THEN [NoExport EXCEPT !.result = "raised"]
    ELSE save_rendered(_render_current_preview(w), path, writable)

(***************************************************************************)
(* home.py MainWindow, the caller that loads the image.  A pixmap is its    *)
(* size (W, H); NonePixmap is Python None, NullPixmap a QPixmap whose       *)
(* isNull() is true.  dialog is the message box the last handler showed.   *)
(***************************************************************************)
NonePixmap == <<>>
NullPixmap == <<0, 0>>

\* pixmaps cv_to_pixmap can hand back
Pixmaps == ImageSizes \cup {NullPixmap}

MainWindow == [selected_pixmap |-> NonePixmap, dialog |-> "none", hidden |-> FALSE]

enter_preview(h, pixmap) == [h EXCEPT !.selected_pixmap = pixmap, !.dialog = "none"]

exit_preview(h) == [h EXCEPT !.selected_pixmap = NonePixmap, !.dialog = "none"]

(***************************************************************************)
(* The session.  pc: "constructing" (the home window is up, no editor      *)
(* window exists yet), "shown" (the editor window takes events),           *)
(* "rejected" (OperationWindow.__init__ raised).  An event reaches its handler only through a widget that is    *)
(* visible (its page is the current tab) and enabled.  A slider's and a    *)
(* spin box's value always equals params[key] (every write to one is       *)
(* mirrored to the other), so the widgets' values are not kept separately. *)
(***************************************************************************)
Init ==
    /\ win = OperationWindow
    /\ steps = 0
    /\ pc = "constructing"
    /\ home = MainWindow
    /\ call = NoCall

\* an event that leaves the window in state w2; steps counts the events that
\* changed it
Step(w2) ==
    /\ pc = "shown" /\ call = NoCall
    /\ win' = w2
    /\ steps' = IF w2 # win THEN steps + 1 ELSE steps
    /\ steps' <= MaxSteps
    /\ UNCHANGED <<pc, home, call>>

\* a step of the worker thread or the delivery of its queued signal: it is
\* not an event of the user, so neither the bound on the events nor an export
\* holds it back
WorkerStep(w2) ==
    /\ pc = "shown"
    /\ win' = w2
    /\ steps' = Min2(steps + 1, MaxSteps)
    /\ UNCHANGED <<pc, home, call>>

\* pages 0, 1 and 3 are disabled while the UI is locked; page 2 never is
PageActive(page) ==
    /\ win.current_tab = page
    /\ (page = "removebg" \/ ~win.ui_locked)

PageOf(key) == IF key \in {"brightness", "sharpness", "denoise"} THEN "adjust" ELSE "filter"

\* upload_btn.clicked -> pick_image, the file is read: enter_preview
PickImage ==
    /\ pc = "constructing"
    /\ home.selected_pixmap = NonePixmap
    /\ \E pixmap \in Pixmaps : home' = enter_preview(home, pixmap)
    /\ UNCHANGED <<win, pc, steps, call>>

\* pick_image, cv2.imread returns None: a warning and nothing else
PickImageUnreadable ==
    /\ pc = "constructing"
    /\ home.selected_pixmap = NonePixmap
    /\ home' = [home EXCEPT !.dialog = "Could not open"]
    /\ UNCHANGED <<win, pc, steps, call>>

\* a sample thumbnail clicked -> use_sample, the file is read: enter_preview
UseSample ==
    /\ pc = "constructing"
    /\ \E pixmap \in Pixmaps : home' = enter_preview(home, pixmap)
    /\ UNCHANGED <<win, pc, steps, call>>

\* use_sample, the sample file does not exist
UseSampleMissing ==
    /\ pc = "constructing"
    /\ home' = [home EXCEPT !.dialog = "Sample not found"]
    /\ UNCHANGED <<win, pc, steps, call>>

\* use_sample, cv2.imread returns None
UseSampleUnreadable ==
    /\ pc = "constructing"
    /\ home' = [home EXCEPT !.dialog = "Could not open sample"]
    /\ UNCHANGED <<win, pc, steps, call>>

\* cancel_btn.clicked -> exit_preview
ExitPreview ==
    /\ pc = "constructing"
    /\ home.selected_pixmap # NonePixmap
    /\ home' = exit_preview(home)
    /\ UNCHANGED <<win, pc, steps, call>>

\* next_step: OperationWindow(initial_pixmap) with a valid pixmap, shown
ConstructWithPixmap ==
    /\ pc = "constructing"
    /\ home.selected_pixmap \in ImageSizes
    /\ \E size \in {home.selected_pixmap} :
          win' = _refresh_apply_buttons(_update_undo_redo_buttons(set_original_image(win, size)))
    /\ pc' = "shown"
    /\ home' = [home EXCEPT !.dialog = "none", !.hidden = TRUE]
    /\ UNCHANGED <<steps, call>>

\* OperationWindow() without a pixmap (operation.py run as a script)
ConstructEmpty ==
    /\ pc = "constructing"
    /\ home = MainWindow
    /\ win' = _refresh_apply_buttons(_update_undo_redo_buttons(win))
    /\ pc' = "shown"
    /\ UNCHANGED <<steps, home, call>>

\* a next_step that shows the editor although the pixmap is null
ConstructNullShown ==
    /\ pc = "constructing"
    /\ home.selected_pixmap = NullPixmap
    /\ pc' = "shown"
    /\ home' = [home EXCEPT !.dialog = "none", !.hidden = TRUE]
    /\ UNCHANGED <<steps, call>>
    /\ UNCHANGED win

\* next_step: OperationWindow(initial_pixmap) with a null pixmap.
\* qpixmap_to_bgr raises in set_original_image before a field is assigned;
\* next_step catches the exception and shows it
ConstructInvalid ==
    /\ pc = "constructing"
    /\ home.selected_pixmap = NullPixmap
    /\ pc' = "rejected"
    /\ home' = [home EXCEPT !.dialog = "Next Error"]
    /\ UNCHANGED <<steps, call>>
    /\ UNCHANGED win

SliderValueChanged ==
    \E key \in SliderKeysUsed, v \in SliderVals :
        /\ PageActive(PageOf(key))
        /\ v # win.params[key]
        /\ Step(set_value(win, key, v))

\* slider.sliderReleased / spin.editingFinished
SliderReleased ==
    \E key \in SliderKeysUsed :
        /\ PageActive(PageOf(key))
        /\ Step(_push_history(win))

ResetClicked ==
    \E key \in SliderKeysUsed :
        /\ PageActive(PageOf(key))
        /\ Step(reset_clicked(win, key))

TabClicked ==
    \E name \in {"adjust", "filter", "removebg", "crop"} :
        /\ ~win.ui_locked
        /\ Step(open_tab(win, name))

PresetClicked ==
    \E preset \in PresetsUsed :
        /\ PageActive("filter")
        /\ Step(_on_preset_clicked(win, preset))

CropRatioClicked ==
    \E label \in CropLabelsUsed :
        /\ PageActive("crop")
        /\ Step(_on_crop_ratio(win, label))

\* the stage label is outside the pages and is never disabled
MousePress ==
    \E inside \in BOOLEAN, hit \in DragModes \cup {"None"} :
        /\ pc = "shown"
        /\ Step(mousePressEvent(win, inside, hit))

MouseMove ==
    \E box \in DragBoxes :
        /\ pc = "shown"
        /\ Step(mouseMoveEvent(win, box))

MouseRelease ==
    /\ pc = "shown"
    /\ Step(mouseReleaseEvent(win))

UndoClicked ==
    /\ win.undo_enabled
    /\ Step(_undo(win))

RedoClicked ==
    /\ win.redo_enabled
    /\ Step(_redo(win))

RemoveStartClicked ==
    /\ PageActive("removebg")
    /\ ~win.ui_locked
    /\ Step(_on_removebg_start(win))

RemoveCancelClicked ==
    /\ PageActive("removebg")
    /\ win.ui_locked
    /\ Step(_on_removebg_cancel(win))

RemoveApplyClicked ==
    /\ PageActive("removebg")
    /\ win.remove_apply_enabled
    /\ Step(_apply_removebg(win))

\* done_btn.clicked.  The handler assigns nothing to the window, so what can
\* follow an export is what can follow the state before it: the exploration
\* of the user's events ends at the export (Step asks for call = NoCall).
DoneClicked ==
    \E path \in ExportPathsUsed, writable \in BOOLEAN :
        /\ pc = "shown" /\ call = NoCall /\ steps <= MaxExportSteps
        /\ call' = [fn |-> "_on_done_clicked", done |-> TRUE, path |-> path,
                    writable |-> writable, export |-> _on_done_clicked(win, path, writable)]
        /\ UNCHANGED <<win, pc, steps, home>>

CropApplyClicked ==
    /\ PageActive("crop")
    /\ win.crop_apply_enabled
    /\ Step(_apply_crop(win))

\* RemoveBgWorker.run: remove_background returns, finished is emitted
WorkerRunReturns ==
    /\ win.remove_worker.state = "running"
    /\ WorkerStep([win EXCEPT !.remove_worker.state = "finished",
                              !.remove_worker.out = remove_background(win.remove_worker.bgr_img)])

\* RemoveBgWorker.run: remove_background raises, error is emitted
WorkerRunRaises ==
    /\ win.remove_worker.state = "running"
    /\ WorkerStep([win EXCEPT !.remove_worker.state = "error"])

\* the queued finished signal reaches the window; the thread quits
DeliverFinished ==
    /\ win.remove_worker.state = "finished"
    /\ WorkerStep([_on_removebg_finished(win, win.remove_worker.out) EXCEPT !.remove_worker = NoWorker])

\* the queued error signal reaches the window; the thread quits
DeliverError ==
    /\ win.remove_worker.state = "error"
    /\ WorkerStep([_on_removebg_error(win) EXCEPT !.remove_worker = NoWorker])

Next ==
    \/ PickImage
    \/ PickImageUnreadable
    \/ UseSample
    \/ UseSampleMissing
    \/ UseSampleUnreadable
    \/ ExitPreview
    \/ ConstructWithPixmap
    \/ ConstructEmpty
    \/ ConstructInvalid
    \/ SliderValueChanged
    \/ SliderReleased
    \/ ResetClicked
    \/ TabClicked
    \/ PresetClicked
    \/ CropRatioClicked
    \/ MousePress
    \/ MouseMove
    \/ MouseRelease
    \/ UndoClicked
    \/ RedoClicked
    \/ RemoveStartClicked
    \/ RemoveCancelClicked
    \/ RemoveApplyClicked
    \/ CropApplyClicked
    \/ DoneClicked
    \/ WorkerRunReturns
    \/ WorkerRunRaises
    \/ DeliverFinished
    \/ DeliverError

Spec == Init /\ [][Next]_vars

\* the session with its scheduling: the thread started by _on_removebg_start
\* runs RemoveBgWorker.run to its return or its exception, and the event loop
\* of the window handles the queued finished or error signal
LiveSpec ==
    /\ Spec
    /\ WF_vars(WorkerRunReturns \/ WorkerRunRaises)
    /\ WF_vars(DeliverFinished \/ DeliverError)

(***************************************************************************)
(* Calls of the backend functions on their own, on every input of the     *)
(* bounded sets.                                                           *)
(***************************************************************************)
\* a BGR array of the given size
InputImage(W, H) ==
    [W |-> W, H |-> H, C |-> 3, data |-> <<Op("input", <<W, H>>)>>, alpha |-> <<>>]

RectCalls ==
    {[fn |-> "GrabCutRect", done |-> FALSE, W |-> W, H |-> H, rect_pad |-> pad,
      out |-> <<0, 0, 0, 0>>] : W \in 1..MaxDim, H \in 1..MaxDim, pad \in 0..MaxPad}

CropRects ==
    {NoneCrop} \cup
    {[enabled |-> e, x |-> x, y |-> y, w |-> w, h |-> h] :
        e \in BOOLEAN, x \in CropCoords, y \in CropCoords, w \in CropCoords, h \in CropCoords}

CropCalls ==
    {[fn |-> f, done |-> FALSE, img |-> InputImage(W, H), crop |-> c, out |-> NoneArr] :
        f \in {"apply_crop", "apply_crop_local"}, W \in 1..MaxDim, H \in 1..MaxDim,
        c \in CropRects}

\* values of the sliders, presets and crop rects in the params of a
\* process_image call
PresetNames == {"none", "mono", "dramatic-warm", "noir", "dramatic-cool"}

ParamDicts ==
    {[brightness |-> br, sharpness |-> sh, denoise |-> dn, blur |-> bl, preset |-> ps,
      red |-> r, green |-> 0, blue |-> b, crop |-> c] :
        br \in {-20, 0, 20}, sh \in {0, 20}, dn \in {0, 20}, bl \in {0, 20},
        ps \in PresetNames, r \in {0, 20}, b \in {0, 20},
        c \in {NoneCrop, CropDisabled,
               [enabled |-> TRUE, x |-> 0, y |-> 50, w |-> 50, h |-> 50]}}

PipelineCalls ==
    {[fn |-> "process_image", done |-> FALSE, img |-> InputImage(MaxDim, MaxDim),
      params |-> p, out |-> NoneArr] : p \in ParamDicts}

\* the rendered buffer is a BGR array or one with an alpha plane
ExportCalls ==
    {[fn |-> "_on_done_clicked", done |-> FALSE, out |-> o, path |-> path,
      writable |-> wr, export |-> NoExport] :
        o \in {InputImage(MaxDim, MaxDim),
               [InputImage(MaxDim, MaxDim) EXCEPT
                   !.C = 4, !.alpha = <<Op("input_alpha", <<MaxDim, MaxDim>>)>>]},
        path \in ExportPaths, wr \in BOOLEAN}

\* the slider values of denoise and blur, and image sizes from one pixel to
\* sizes whose kernels exceed the minimum
KernelCalls ==
    {[fn |-> "KernelSize", done |-> FALSE, v |-> v, out |-> 0] : v \in 1..100}
    \cup {[fn |-> "RefineKernels", done |-> FALSE, W |-> W, H |-> H, out |-> <<0, 0, 0>>] :
             W \in {1, 99, 100, 250, 600, 1200}, H \in {1, 250, 399, 600, 800, 1300}}

CallsInit ==
    /\ win = OperationWindow
    /\ steps = 0
    /\ pc = "call"
    /\ home = MainWindow
    /\ call \in RectCalls \cup CropCalls \cup PipelineCalls \cup ExportCalls \cup KernelCalls

CallGrabCutRect ==
    /\ call.fn = "GrabCutRect" /\ ~call.done
    /\ call' = [call EXCEPT !.done = TRUE,
                            !.out = GrabCutRect(call.W, call.H, call.rect_pad)]
    /\ UNCHANGED <<win, pc, steps, home>>

CallApplyCrop ==
    /\ call.fn = "apply_crop" /\ ~call.done
    /\ call' = [call EXCEPT !.done = TRUE, !.out = apply_crop(call.img, call.crop)]
    /\ UNCHANGED <<win, pc, steps, home>>

CallApplyCropLocal ==
    /\ call.fn = "apply_crop_local" /\ ~call.done
    /\ call' = [call EXCEPT !.done = TRUE, !.out = apply_crop_local(call.img, call.crop)]
    /\ UNCHANGED <<win, pc, steps, home>>

CallProcessImage ==
    /\ call.fn = "process_image" /\ ~call.done
    /\ call' = [call EXCEPT !.done = TRUE, !.out = process_image(call.img, call.params)]
    /\ UNCHANGED <<win, pc, steps, home>>

CallSaveRendered ==
    /\ call.fn = "_on_done_clicked" /\ ~call.done
    /\ call' = [call EXCEPT !.done = TRUE,
                            !.export = save_rendered(call.out, call.path, call.writable)]
    /\ UNCHANGED <<win, pc, steps, home>>

CallKernelSize ==
    /\ call.fn = "KernelSize" /\ ~call.done
    /\ call' = [call EXCEPT !.done = TRUE, !.out = KernelSize(call.v)]
    /\ UNCHANGED <<win, pc, steps, home>>

CallRefineKernels ==
    /\ call.fn = "RefineKernels" /\ ~call.done
    /\ call' = [call EXCEPT !.done = TRUE, !.out = RefineKernels(call.W, call.H)]
    /\ UNCHANGED <<win, pc, steps, home>>

CallsNext ==
    \/ CallGrabCutRect \/ CallApplyCrop \/ CallApplyCropLocal \/ CallProcessImage
    \/ CallSaveRendered \/ CallKernelSize \/ CallRefineKernels

CallsSpec == CallsInit /\ [][CallsNext]_vars

(***************************************************************************)
(* Properties                                                              *)
(***************************************************************************)
\* the session state: params, base-layer stack, active base index, history, cursor
Session(w) == <<w.params, w.base_images, w.base_idx, w.history, w.hist_idx>>

\* the (base index, params) pair the window is showing
LivePair(w) == HistoryState(w.base_idx, w.params)

\* the snapshot at the cursor
AtCursor(w) == PyIndex(w.history, w.hist_idx)

\* C1: while a background removal is running, every step leaves params, the
\* base-layer stack, the active base index, the history list and the cursor
\* unchanged, and a step that changes the window at all is the removal Cancel
\* request, the worker's run ending or the delivery of its completion.
C1_LockedWhileRunning ==
    [][win.remove_running =>
          /\ Session(win') = Session(win)
          /\ \/ win' = win
             \/ RemoveCancelClicked
             \/ WorkerRunReturns \/ WorkerRunRaises
             \/ DeliverFinished \/ DeliverError]_vars

\* a removal is running while undo is available and a crop box is on the stage
C1_Witness ==
    /\ win.remove_running
    /\ win.undo_enabled
    /\ win.stage_label.crop_rect # NullRect

\* the computation a worker started in window state w performs
WorkerOutput(w) == remove_background(w.remove_worker.bgr_img)

\* C2: Start, then Cancel, then the completion (result or error) leaves the
\* base-layer stack, active base index, params, history, cursor and a removal
\* result that was held before Start exactly as they were before Start.
C2_CancelRestoresPreStart ==
    (pc = "shown" /\ ~win.remove_running /\ win.base_idx >= 0) =>
        LET started == _on_removebg_start(win)
            cancelled == _on_removebg_cancel(started)
            finished == _on_removebg_finished(cancelled, WorkerOutput(started))
            failed == _on_removebg_error(cancelled)
        IN /\ Session(finished) = Session(win)
           /\ Session(failed) = Session(win)
           /\ finished.remove_preview_bgra = win.remove_preview_bgra
           /\ failed.remove_preview_bgra = win.remove_preview_bgra

\* C3: a task is in flight exactly while _remove_running is set, and a Start
\* request in that state changes nothing: worker, cancel flag and the rest of
\* the window stay as they are.
C3_SecondStartRejected ==
    /\ (win.remove_worker.state # "none") <=> win.remove_running
    /\ win.remove_running => _on_removebg_start(win) = win

\* a removal is running and its cancellation has been requested
C3_Witness ==
    /\ win.remove_running
    /\ win.remove_cancelled
    /\ win.remove_worker.state = "finished"

RECURSIVE UndoTimes(_, _)
UndoTimes(w, n) == IF n = 0 THEN w ELSE UndoTimes(_undo(w), n - 1)

RECURSIVE RedoTimes(_, _)
RedoTimes(w, n) == IF n = 0 THEN w ELSE RedoTimes(_redo(w), n - 1)

\* C4: outside a removal run, one undo (redo) moves the cursor one back
\* (forward) and makes (active base index, params) the pair stored there; with
\* N snapshots and the cursor on the last, N-1 undos reach the first snapshot
\* and N-1 redos after them give the cursor N-1 and, when any step was taken
\* (N > 1), the pair stored at N-1, which is the pair the session had before
\* the undos whenever that pair was the one stored at the cursor.
C4_UndoRedoExact ==
    (pc = "shown" /\ ~win.remove_running /\ win.history # <<>>) =>
        LET N == Len(win.history)
            u == _undo(win)
            r == _redo(win)
            bottom == UndoTimes(win, N - 1)
            back == RedoTimes(bottom, N - 1)
        IN /\ win.hist_idx > 0 =>
                 /\ u.hist_idx = win.hist_idx - 1
                 /\ LivePair(u) = PyIndex(win.history, win.hist_idx - 1)
           /\ win.hist_idx < N - 1 =>
                 /\ r.hist_idx = win.hist_idx + 1
                 /\ LivePair(r) = PyIndex(win.history, win.hist_idx + 1)
           /\ win.hist_idx = N - 1 =>
                 /\ bottom.hist_idx = 0
                 /\ back.hist_idx = N - 1
                 /\ back.history = win.history
                 /\ N > 1 => /\ LivePair(bottom) = win.history[1]
                             /\ LivePair(back) = win.history[N]
                 /\ LivePair(win) = AtCursor(win) => LivePair(back) = LivePair(win)

\* three snapshots over two base layers, the cursor on the last
C4_Witness ==
    /\ pc = "shown"
    /\ ~win.remove_running
    /\ Len(win.history) >= 3
    /\ win.hist_idx = Len(win.history) - 1
    /\ win.history[1].base_idx # win.history[Len(win.history)].base_idx
    /\ win.history[1].params # win.history[2].params

\* C5: a push of a pair that differs from the snapshot at the cursor, made with
\* the cursor before the end of the list, leaves the old list up to the cursor
\* followed by the new snapshot, the cursor on it, and no redo.
C5_PushTruncates ==
    (/\ pc = "shown"
     /\ win.history # <<>>
     /\ win.hist_idx < Len(win.history) - 1
     /\ LivePair(win) # AtCursor(win)) =>
        LET p == _push_history(win)
        IN /\ p.history = Append(SubSeq(win.history, 1, win.hist_idx + 1), LivePair(win))
           /\ p.hist_idx = Len(p.history) - 1
           /\ ~p.redo_enabled
           /\ _redo(p) = p

\* two snapshots are redo-able and the params have been edited since the undos
C5_Witness ==
    /\ pc = "shown"
    /\ Len(win.history) >= 3
    /\ win.hist_idx = 0
    /\ LivePair(win) # AtCursor(win)

\* C6: no two adjacent snapshots are equal, and a push of a pair equal to the
\* snapshot at the cursor changes nothing, wherever the cursor is.
C6_NoAdjacentDuplicates ==
    /\ \A i \in 1..(Len(win.history) - 1) : win.history[i] # win.history[i + 1]
    /\ (win.history # <<>> /\ LivePair(win) = AtCursor(win)) => _push_history(win) = win

\* the live pair equals the snapshot at a cursor that is not at the end
C6_Witness ==
    /\ pc = "shown"
    /\ Len(win.history) >= 2
    /\ win.hist_idx < Len(win.history) - 1
    /\ LivePair(win) = AtCursor(win)

\* C7: every commit-boundary event (slider release or spin edit finished,
\* preset click, crop-ratio pick, crop-box drag release) after which the
\* (active base index, params) pair differs from the snapshot at the cursor
\* appends that pair to the history and moves the cursor onto it.
C7_CommitBoundaryPushes ==
    [][(/\ SliderReleased \/ PresetClicked \/ CropRatioClicked \/ MouseRelease
        /\ win.history # <<>>
        /\ LivePair(win') # AtCursor(win))
       => /\ win'.history = Append(SubSeq(win.history, 1, win.hist_idx + 1), LivePair(win'))
          /\ win'.hist_idx = Len(win'.history) - 1]_vars

AllSliderKeys == {"brightness", "sharpness", "denoise", "red", "green", "blue"}

\* C8: moving a slider or spin box to a value sets that param, leaves the
\* history list and the cursor as they are, and shows the re-rendered preview.
C8_SliderMoveNoSnapshot ==
    pc = "shown" =>
        \A key \in AllSliderKeys, v \in SliderVals \cup {100} :
            LET s == slider_setValue(win, key, v)
            IN /\ s.params = [win.params EXCEPT ![key] = v]
               /\ s.history = win.history
               /\ s.hist_idx = win.hist_idx
               /\ (s.base_idx >= 0 /\ v # win.params[key]) =>
                      s.stage_pixmap_source = _render_current_preview(s)

\* two sliders have been moved since the snapshot at the cursor was stored
C8_Witness ==
    /\ pc = "shown"
    /\ win.history # <<>>
    /\ win.params.brightness # AtCursor(win).params.brightness
    /\ win.params.red # AtCursor(win).params.red

\* C9: undo and redo, once or repeated, leave the history list and the
\* base-layer stack as they are.
C9_UndoRedoStoreNothing ==
    pc = "shown" =>
        \A k \in 0..Len(win.history) :
            LET u == UndoTimes(win, k)
                r == RedoTimes(win, k)
                ur == RedoTimes(u, k)
            IN /\ u.history = win.history /\ u.base_images = win.base_images
               /\ r.history = win.history /\ r.base_images = win.base_images
               /\ ur.history = win.history /\ ur.base_images = win.base_images

\* the cursor is inside the list, with params edited since the last restore
C9_Witness ==
    /\ pc = "shown"
    /\ ~win.remove_running
    /\ win.undo_enabled
    /\ win.redo_enabled
    /\ LivePair(win) # AtCursor(win)

\* C10: confirming a held removal result outside a removal run appends it to
\* the base-layer stack, makes it the active layer, clears the held result,
\* resets params to neutral and stores (new base index, neutral params) as the
\* last snapshot, the cursor on it.
C10_ConfirmRemoval ==
    (pc = "shown" /\ win.remove_preview_bgra # NoneArr /\ ~win.remove_running) =>
        LET a == _apply_removebg(win)
        IN /\ a.base_images = Append(win.base_images, win.remove_preview_bgra)
           /\ a.base_idx = Len(a.base_images) - 1
           /\ _current_base(a) = win.remove_preview_bgra
           /\ a.remove_preview_bgra = NoneArr
           /\ a.params = UIParams
           /\ a.history[Len(a.history)] = HistoryState(a.base_idx, UIParams)
           /\ a.hist_idx = Len(a.history) - 1

\* a result is held and can be confirmed while the params are not neutral
C10_Witness ==
    /\ pc = "shown"
    /\ win.remove_preview_bgra # NoneArr
    /\ win.remove_apply_enabled
    /\ win.params # UIParams

\* C11: confirming an enabled crop on a loaded image outside a removal run
\* appends, as the new active base layer, the pipeline output of the old active
\* layer (rendered without the crop) cut to the crop rect, resets params and
\* the crop rect to neutral, and stores (new base index, neutral params) as the
\* last snapshot, the cursor on it.
C11_ConfirmCrop ==
    (pc = "shown" /\ _can_apply_crop(win) /\ ~win.remove_running /\ win.base_idx >= 0) =>
        LET a == _apply_crop(win)
            base == _current_base(win)
            sp == split_bgra(base)
            rendered == process_image(sp[1], [win.params EXCEPT !.crop = NoneCrop])
            r == CropPixels(base.W, base.H, win.params.crop)
            new == _current_base(a)
        IN /\ a.base_images = Append(win.base_images, new)
           /\ a.base_idx = Len(win.base_images)
           /\ new.C = base.C
           /\ new.W = r[3] /\ new.H = r[4]
           /\ r[1] + new.W <= base.W /\ r[2] + new.H <= base.H
           /\ new.data = Append(rendered.data, Op("crop", r))
           /\ new.alpha = (IF base.C = 4 THEN Append(base.alpha, Op("crop", r)) ELSE <<>>)
           /\ a.params = UIParams
           /\ ~a.params.crop.enabled
           /\ a.history[Len(a.history)] = HistoryState(a.base_idx, UIParams)
           /\ a.hist_idx = Len(a.history) - 1

\* a crop box is set on the crop page while a slider is away from neutral
C11_Witness ==
    /\ pc = "shown"
    /\ win.crop_apply_enabled
    /\ win.params.crop.enabled
    /\ win.params.crop.w < 100
    /\ win.params.brightness # 0

\* the session as set_original_image leaves it
FreshlyLoaded(w) ==
    /\ Len(w.base_images) = 1
    /\ w.base_idx = 0
    /\ w.params = UIParams
    /\ w.history = <<HistoryState(0, UIParams)>>
    /\ w.hist_idx = 0
    /\ ~w.remove_running
    /\ w.remove_preview_bgra = NoneArr

\* a crop picked with the ratio button label and confirmed, in window state w
CropCommit(w, label) == _apply_crop(_on_crop_ratio(open_tab(w, "crop"), label))

\* a removal started, completed and confirmed, in window state w
RemovalCommit(w) ==
    LET started == _on_removebg_start(open_tab(w, "removebg"))
    IN _apply_removebg(_on_removebg_finished(started, WorkerOutput(started)))

\* C12: from a freshly loaded image, a confirmed crop followed by a confirmed
\* background removal leaves a base-layer stack of length 3 (original,
\* post-crop, post-removal) and a history of length 3, the cursor on index 2.
C12_CropThenRemoval ==
    (pc = "shown" /\ FreshlyLoaded(win)) =>
        \A label \in {"Custom", "Square", "9:16", "2:3"} :
            LET c == CropCommit(win, label)
                a == RemovalCommit(c)
            IN /\ Len(c.base_images) = 2 /\ Len(c.history) = 2 /\ c.hist_idx = 1
               /\ Len(a.base_images) = 3
               /\ a.base_images[1] = win.base_images[1]
               /\ a.base_images[2] = c.base_images[2]
               /\ a.base_images[3].C = 4
               /\ a.base_idx = 2
               /\ Len(a.history) = 3
               /\ a.hist_idx = 2
               /\ a.history = <<HistoryState(0, UIParams), HistoryState(1, UIParams),
                                HistoryState(2, UIParams)>>

\* the session after exactly those two commits: three layers, three snapshots
C12_Witness ==
    /\ pc = "shown"
    /\ Len(win.base_images) = 3
    /\ win.base_images[2].W < win.base_images[1].W
    /\ win.base_images[3].C = 4
    /\ win.base_idx = 2
    /\ Len(win.history) = 3
    /\ win.hist_idx = 2
    /\ win.remove_status = "Applied"

\* C13: once the window is shown, every step keeps each stored base layer at
\* its index with its content and never shortens the stack; a step that
\* changes the stack is a confirm-crop or confirm-removal, taken while no
\* removal is running, and appends exactly one layer.
C13_BaseStackAppendOnly ==
    [][pc = "shown" =>
          /\ Len(win'.base_images) >= Len(win.base_images)
          /\ SubSeq(win'.base_images, 1, Len(win.base_images)) = win.base_images
          /\ win'.base_images # win.base_images =>
                /\ RemoveApplyClicked \/ CropApplyClicked
                /\ ~win.remove_running
                /\ Len(win'.base_images) = Len(win.base_images) + 1]_vars

\* a commit made after an undo: the layer of the undone commit is still stored
\* below the new one, and the active layer is the new one
C13_Witness ==
    /\ pc = "shown"
    /\ Len(win.base_images) = 3
    /\ win.base_idx = 2
    /\ \A i \in 1..Len(win.history) : win.history[i].base_idx # 1

\* C14: the delivery of a successful removal result, no cancel requested,
\* holds the result and leaves params, base-layer stack, active base index,
\* history and cursor as they are; a later step that stores the held result in
\* the base-layer stack is the confirm-removal step.
C14_ResultHeldUncommitted ==
    [][/\ (DeliverFinished /\ ~win.remove_cancelled) =>
              /\ Session(win') = Session(win)
              /\ win'.remove_preview_bgra = win.remove_worker.out
              /\ win'.remove_preview_bgra # NoneArr
              /\ ~win'.remove_running
              /\ win'.remove_status = "Done"
       /\ (/\ win.remove_preview_bgra # NoneArr
           /\ \E i \in (Len(win.base_images) + 1)..Len(win'.base_images) :
                 win'.base_images[i] = win.remove_preview_bgra) => RemoveApplyClicked]_vars

\* a result is held after a completed removal, over a history of two snapshots
C14_Witness ==
    /\ pc = "shown"
    /\ win.remove_status = "Done"
    /\ win.remove_preview_bgra # NoneArr
    /\ win.remove_worker = NoWorker
    /\ ~win.remove_running
    /\ Len(win.history) >= 2

\* C15: whenever the removal computation fails, the delivery of the error
\* ends the run with params, base-layer stack, active base index, history and
\* cursor unchanged, no result held, and the status "Failed", which is neither
\* "Cancelled" nor "Done".
C15_FailureReported ==
    [][DeliverError =>
          /\ Session(win') = Session(win)
          /\ ~win'.remove_running
          /\ ~win'.ui_locked
          /\ win'.remove_preview_bgra = NoneArr
          /\ win'.remove_status = "Failed"
          /\ win'.remove_status \notin {"Cancelled", "Done"}]_vars

\* C15 (amended): the delivery of a removal error ends the run with params,
\* base-layer stack, active base index, history and cursor unchanged and no
\* result held; the status is "Failed" when no cancel was requested during the
\* run and "Cancelled" when one was.
C15_FailureReportedUnlessCancelled ==
    [][DeliverError =>
          /\ Session(win') = Session(win)
          /\ ~win'.remove_running
          /\ ~win'.ui_locked
          /\ ~win'.remove_cancelled
          /\ win'.remove_preview_bgra = NoneArr
          /\ win'.remove_status = (IF win.remove_cancelled THEN "Cancelled" ELSE "Failed")]_vars

\* a removal that was not cancelled has failed
C15_Witness ==
    /\ pc = "shown"
    /\ win.remove_status = "Failed"
    /\ ~win.remove_running
    /\ win.remove_worker = NoWorker
    /\ win.base_idx >= 0

\* C16: constructing the window with a valid pixmap leaves it shown with
\* exactly one base layer, the converted pixmap, active at index 0, neutral
\* params, and a history of exactly the snapshot (0, neutral params) with the
\* cursor on it.
C16_LoadImage ==
    [][ConstructWithPixmap =>
          /\ pc' = "shown"
          /\ \E size \in ImageSizes : win'.base_images = <<qpixmap_to_bgr(size)>>
          /\ win'.base_idx = 0
          /\ win'.params = UIParams
          /\ win'.history = <<HistoryState(0, UIParams)>>
          /\ win'.hist_idx = 0
          /\ ~win'.undo_enabled /\ ~win'.redo_enabled]_vars

\* the window just after the load, showing the rendered image
C16_Witness ==
    /\ pc = "shown"
    /\ steps = 0
    /\ FreshlyLoaded(win)
    /\ win.stage_pixmap_source # NoneArr
    /\ win.current_tab = "adjust"

\* C17: a source image that cannot be read (pick_image, use_sample) or is
\* invalid (null pixmap handed to the editor) creates no session state: no
\* base layer, no snapshot, active base index -1, empty history; the caller
\* shows a message, the home window stays up and the editor is not shown.  An
\* editor that shows an image was given a valid pixmap.
C17_InvalidImageRejected ==
    /\ [](pc # "shown" => win = OperationWindow)
    /\ []((pc = "shown" /\ win.base_idx >= 0) => home.selected_pixmap \in ImageSizes)
    /\ [][(PickImageUnreadable \/ UseSampleMissing \/ UseSampleUnreadable \/ ConstructInvalid) =>
             /\ win' = win
             /\ win'.base_images = <<>> /\ win'.base_idx = -1
             /\ win'.history = <<>> /\ win'.hist_idx = -1
             /\ pc' # "shown"
             /\ home'.dialog # "none"
             /\ ~home'.hidden
             /\ home'.selected_pixmap = home.selected_pixmap]_vars
    /\ [][pc = "rejected" => pc' = "rejected" /\ win' = win]_vars

\* the editor refused a null pixmap and the home window reported it
C17_Witness ==
    /\ pc = "rejected"
    /\ home.dialog = "Next Error"
    /\ ~home.hidden
    /\ win.base_images = <<>>
    /\ win.history = <<>>

\* C18: for every image size W, H >= 1 and padding >= 0 the rectangle handed
\* to the segmentation has positive width and height and lies inside the
\* frame: 0 <= x, 0 <= y, x + w <= W, y + h <= H.
C18_RectInsideFrame ==
    (call.fn = "GrabCutRect" /\ call.done) =>
        LET r == call.out
        IN /\ r[3] >= 1 /\ r[4] >= 1
           /\ 0 <= r[1] /\ 0 <= r[2]
           /\ r[1] + r[3] <= call.W
           /\ r[2] + r[4] <= call.H

\* a crop call has been applied to an enabled crop rect
CropCallDone ==
    /\ call.fn \in {"apply_crop", "apply_crop_local"}
    /\ call.done
    /\ DOMAIN call.crop # {}
    /\ call.crop.enabled

\* C19: for every image size W, H >= 1 and every enabled crop rect with
\* x, y, w, h in [0, 1], zero sizes and origins on the right or bottom edge
\* included, the output of apply_crop and of apply_crop_local has width >= 1
\* and height >= 1 and is a region of the input frame: x_px + width <= W and
\* y_px + height <= H.
C19_CropInsideFrame ==
    CropCallDone =>
        LET r == CropPixels(call.img.W, call.img.H, call.crop)
        IN /\ call.out.W >= 1
           /\ call.out.H >= 1
           /\ r[1] + call.out.W <= call.img.W
           /\ r[2] + call.out.H <= call.img.H

\* the enabled crop rect x=0, y=0, w=1, h=1
FullFrame == [enabled |-> TRUE, x |-> 0, y |-> 0, w |-> 100, h |-> 100]

\* the crop function of the call, applied to img with crop rect c
CropFn(img, c) ==
    IF call.fn = "apply_crop" THEN apply_crop(img, c) ELSE apply_crop_local(img, c)

\* C20: apply_crop and apply_crop_local return their input for a disabled (or
\* absent) crop rect and for the enabled full-frame rect, and applying them
\* with the full-frame rect to the output of a crop returns that output.
C20_FullFrameCropIdentity ==
    (call.fn \in {"apply_crop", "apply_crop_local"} /\ call.done) =>
        /\ (DOMAIN call.crop = {} \/ ~call.crop.enabled) => call.out = call.img
        /\ call.crop = FullFrame => call.out = call.img
        /\ CropFn(call.img, FullFrame) = call.img
        /\ CropFn(call.img, [FullFrame EXCEPT !.enabled = FALSE]) = call.img
        /\ CropFn(call.out, FullFrame) = call.out

\* a crop that cut the image down has been applied
C20_Witness ==
    /\ CropCallDone
    /\ call.out.W >= 1 /\ call.out.W < call.img.W
    /\ call.out.H >= 1 /\ call.out.H < call.img.H
    /\ call.out.W > 1

\* C21: the preview render has the width and height of the active base layer
\* for the live params and for every crop rect put in them, enabled ones
\* included; the shown pixmap has those dimensions too.  A step after which
\* the active layer has other dimensions is the confirm-crop, unless it makes
\* an already stored layer active (undo, redo) or stores the held removal
\* result (confirm-removal).
C21_PreviewNotCropped ==
    /\ [](pc = "shown" /\ win.base_idx >= 0 =>
            LET base == _current_base(win)
            IN /\ win.stage_pixmap_source.W = base.W
               /\ win.stage_pixmap_source.H = base.H
               /\ \A c \in CropRects \cup {win.params.crop} :
                     LET out == _render_current_preview([win EXCEPT !.params.crop = c])
                     IN out.W = base.W /\ out.H = base.H /\ out.C = base.C)
    /\ [][(/\ pc = "shown" /\ win.base_idx >= 0
           /\ \/ _current_base(win').W # _current_base(win).W
              \/ _current_base(win').H # _current_base(win).H)
          => \/ CropApplyClicked
             \/ /\ win'.base_images = win.base_images
                /\ UndoClicked \/ RedoClicked
             \/ /\ _current_base(win') = win.remove_preview_bgra
                /\ RemoveApplyClicked]_vars

\* a crop box smaller than the frame is set and the preview is still full size
C21_Witness ==
    /\ pc = "shown"
    /\ win.base_idx >= 0
    /\ win.params.crop.enabled
    /\ win.params.crop.w < 100
    /\ win.params.crop.h < 100
    /\ win.stage_pixmap_source.W = _current_base(win).W
    /\ win.current_tab = "crop"

\* the place of a stage in the fixed order of the pipeline
StageRank(name) ==
    CASE name = "input" -> 0
      [] name = "apply_brightness" -> 1
      [] name = "apply_sharpness" -> 2
      [] name = "apply_noise_reduction" -> 3
      [] name = "apply_blur" -> 4
      [] name \in {"apply_grayscale", "apply_preset"} -> 5
      [] name = "apply_rgb" -> 6
      [] name = "crop" -> 7

\* the stages applied to produce img, in the order of their application
StagesOf(img) == [i \in 1..Len(img.data) |-> img.data[i].op]

\* C22: for every params value the stages process_image applies come in the
\* order tone, sharpness, denoise, blur, preset or grayscale (only when the
\* preset is not none), channel balance, crop; a crop stage is the last one.
C22_FixedStageOrder ==
    (call.fn = "process_image" /\ call.done) =>
        LET st == StagesOf(call.out)
        IN /\ st[1] = "input"
           /\ \A i \in 1..(Len(st) - 1) : StageRank(st[i]) < StageRank(st[i + 1])
           /\ \A i \in 1..Len(st) : st[i] = "crop" => i = Len(st)
           /\ call.params.preset = "none" =>
                 \A i \in 1..Len(st) : StageRank(st[i]) # 5
           /\ call.params.preset = "mono" =>
                 \E i \in 1..Len(st) : st[i] = "apply_grayscale"
           /\ call.params.preset \in {"dramatic-warm", "noir", "dramatic-cool"} =>
                 \E i \in 1..Len(st) : st[i] = "apply_preset"

\* a call in which every stage of the pipeline acted
C22_Witness ==
    /\ call.fn = "process_image" /\ call.done
    /\ {StageRank(call.out.data[i].op) : i \in 1..Len(call.out.data)} = 0..7

\* red, green and blue values over the range of the sliders
BalanceVals == {-100, 0, 20, 100}

\* C23: under the presets mono and noir process_image gives the same output
\* for every red, green and blue value and applies no channel balance; under
\* every other preset it applies the channel balance with the values of the
\* params whenever one of them is not zero.
C23_BalanceSkippedForMonoNoir ==
    (call.fn = "process_image" /\ call.done) =>
        LET p == call.params
            st == StagesOf(call.out)
            balance == {i \in 1..Len(st) : st[i] = "apply_rgb"}
        IN IF p.preset \in {"mono", "noir"}
           THEN /\ balance = {}
                /\ \A r, g, b \in BalanceVals :
                      process_image(call.img, [p EXCEPT !.red = r, !.green = g, !.blue = b])
                          = call.out
           ELSE /\ <<p.red, p.green, p.blue>> # <<0, 0, 0>> =>
                      \E i \in balance : call.out.data[i].arg = <<p.red, p.green, p.blue>>
                /\ \A r \in BalanceVals \ {p.red} :
                      process_image(call.img, [p EXCEPT !.red = r]) # call.out

\* a noir call with a stored red value
C23_Witness ==
    /\ call.fn = "process_image" /\ call.done
    /\ call.params.preset = "noir" /\ call.params.red = 20 /\ call.params.blue = 20
    /\ \A i \in 1..Len(call.out.data) : call.out.data[i].op # "apply_rgb"

\* C24: a click on a preset button leaves every param but preset and mono, the
\* layer stack and the active index as they were, and mono says whether the
\* preset is mono; the preview shown after a click on none with a red, green
\* or blue value stored is rendered with the channel balance of those values.
C24_PresetKeepsOtherParams ==
    [][PresetClicked =>
          /\ \A k \in UIParamsFields \ {"preset", "mono"} : win'.params[k] = win.params[k]
          /\ win'.params.mono = (win'.params.preset = "mono")
          /\ win'.base_images = win.base_images /\ win'.base_idx = win.base_idx
          /\ (/\ win'.params.preset = "none" /\ win.base_idx >= 0
              /\ <<win.params.red, win.params.green, win.params.blue>> # <<0, 0, 0>>)
             => \E i \in 1..Len(win'.stage_pixmap_source.data) :
                   win'.stage_pixmap_source.data[i] =
                       Op("apply_rgb", <<win.params.red, win.params.green, win.params.blue>>)]_vars

\* none was selected after noir with red = 20 stored, and the preview shows
\* the channel balance
C24_Witness ==
    /\ pc = "shown" /\ win.base_idx >= 0
    /\ win.params.preset = "none" /\ win.params.red = 20
    /\ win.hist_idx >= 1
    /\ AtCursor(win) = LivePair(win)
    /\ win.history[win.hist_idx].params = [win.params EXCEPT !.preset = "noir"]
    /\ \E i \in 1..Len(win.stage_pixmap_source.data) :
          win.stage_pixmap_source.data[i].op = "apply_rgb"

\* a window that holds nothing but one base layer and the params
FreshWindow(base, params) ==
    [OperationWindow EXCEPT !.base_images = <<base>>, !.base_idx = 0, !.params = params]

\* C25: the render of a session is the render of a fresh window holding its
\* active base layer and its params, so it is a function of these two; a
\* preview update changes nothing but the pixmap on the stage; and the preview
\* after a change of two controls (brightness and red, red and the preset) to
\* other values is the same in whichever order the two were changed.
C25_RenderPure ==
    (pc = "shown" /\ win.base_idx >= 0) =>
        /\ _render_current_preview(win)
              = _render_current_preview(FreshWindow(_current_base(win), win.params))
        /\ update_preview(win)
              = [win EXCEPT !.stage_pixmap_source = _render_current_preview(win)]
        /\ \A v1 \in SliderVals \ {win.params.brightness} :
           \A v2 \in SliderVals \ {win.params.red} :
              LET a == set_value(set_value(win, "brightness", v1), "red", v2)
                  b == set_value(set_value(win, "red", v2), "brightness", v1)
              IN <<a.params, a.stage_pixmap_source>> = <<b.params, b.stage_pixmap_source>>
        /\ \A v \in SliderVals \ {win.params.red} :
           \A preset \in PresetsUsed \ {win.params.preset} :
              LET a == _on_preset_clicked(set_value(win, "red", v), preset)
                  b == set_value(_on_preset_clicked(win, preset), "red", v)
              IN <<a.params, a.stage_pixmap_source>> = <<b.params, b.stage_pixmap_source>>

\* a session whose pixmap is the render of its layer and params, reached
\* after edits, a committed layer and an undo
C25_Witness ==
    /\ pc = "shown" /\ win.base_idx >= 0 /\ Len(win.base_images) > 1
    /\ win.hist_idx < Len(win.history) - 1
    /\ win.params.red = 20 /\ win.params.preset = "noir"
    /\ win.stage_pixmap_source = _render_current_preview(win)
    /\ win.stage_pixmap_source # _current_base(win)

\* params with every control at its neutral value
NeutralParams(p) ==
    /\ p.brightness = 0 /\ p.sharpness = 0 /\ p.denoise = 0 /\ p.blur = 0
    /\ p.preset = "none" /\ p.red = 0 /\ p.green = 0 /\ p.blue = 0
    /\ (p.crop = NoneCrop \/ ~p.crop.enabled)

\* C26: with neutral params process_image returns its input array, and the
\* two stages that compute in float32 under neutral params (tone, channel
\* balance) return every pixel value 0..255 as it was.
C26_NeutralRenderIsIdentity ==
    /\ NeutralToneExact /\ NeutralBalanceExact
    /\ (call.fn = "process_image" /\ call.done /\ NeutralParams(call.params)) =>
          call.out = call.img

\* a neutral call with a disabled crop rect that returned the input
C26_Witness ==
    /\ call.fn = "process_image" /\ call.done /\ NeutralParams(call.params)
    /\ call.params.crop = CropDisabled
    /\ call.out = InputImage(MaxDim, MaxDim)
    /\ brightness_pixel_neutral(1) = 1 /\ brightness_pixel_neutral(254) = 254

\* C27: an export that did not write the file (imwrite returned False or
\* raised) does not emit sig_done, and a click on Done, whatever its outcome,
\* leaves params, the layer stack, the active index, the history and the
\* cursor as they were.
C27_ExportFailureReported ==
    /\ []((/\ call.fn = "_on_done_clicked" /\ call.done /\ call.path # <<>>
           /\ call.export.result # "True")
          => ~call.export.sig_done)
    /\ [][DoneClicked => Session(win') = Session(win)]_vars

\* C28: the buffer handed to imwrite is the rendered buffer without its alpha
\* plane when that buffer has four channels and the extension is jpg, jpeg or
\* bmp, and the rendered buffer itself in every other case.
C28_AlphaStrippedForOpaqueFormats ==
    (call.fn = "_on_done_clicked" /\ call.done /\ call.path # <<>>) =>
        LET out == call.out
            written == call.export.written
        IN IF out.C = 4 /\ lower(call.path[Len(call.path)]) \in {"jpg", "jpeg", "bmp"}
           THEN /\ written.C = 3 /\ written.alpha = <<>>
                /\ written.W = out.W /\ written.H = out.H /\ written.data = out.data
           ELSE written = out

\* a four-channel buffer saved as bmp went to the writer with three channels
C28_Witness ==
    /\ call.fn = "_on_done_clicked" /\ call.done
    /\ call.out.C = 4 /\ call.path = <<"image_01", "bmp">>
    /\ call.export.written.C = 3 /\ call.export.result = "True"

\* C29: a Cancel click sets the cancel flag and the status text and nothing
\* else; while the flag is set the removal is running, the controls are locked
\* and a Start changes nothing; the step that ends this is the delivery of the
\* worker's finished or error signal; and undo, redo, the two confirms and a
\* further Cancel do the same with the flag set as with the flag clear.
C29_CancelOnlySetsFlag ==
    /\ [][RemoveCancelClicked =>
             win' = [win EXCEPT !.remove_cancelled = TRUE,
                                !.remove_status = "Cancelling..."]]_vars
    /\ []((pc = "shown" /\ win.remove_cancelled) =>
             /\ win.remove_running /\ win.ui_locked
             /\ win.remove_worker.state # "none"
             /\ _on_removebg_start(win) = win
             /\ LET clear == [win EXCEPT !.remove_cancelled = FALSE]
                    Same(a, b) == [a EXCEPT !.remove_cancelled = FALSE,
                                            !.remove_status = ""]
                                     = [b EXCEPT !.remove_cancelled = FALSE,
                                                 !.remove_status = ""]
                IN /\ Same(_undo(win), _undo(clear))
                   /\ Same(_redo(win), _redo(clear))
                   /\ Same(_apply_removebg(win), _apply_removebg(clear))
                   /\ Same(_apply_crop(win), _apply_crop(clear))
                   /\ Same(_on_removebg_cancel(win), _on_removebg_cancel(clear)))
    /\ [][(/\ pc = "shown" /\ win.remove_cancelled
           /\ ~(win'.remove_cancelled /\ win'.remove_running /\ win'.ui_locked))
          => DeliverFinished \/ DeliverError]_vars

\* Cancel was clicked and the worker is still computing
C29_Witness ==
    /\ pc = "shown" /\ win.remove_cancelled /\ win.remove_running /\ win.ui_locked
    /\ win.remove_status = "Cancelling..."
    /\ win.remove_worker.state = "running"

\* C30: when a click on the removal Confirm stores the held result as a new
\* layer, that result was computed from the render of the layer and params
\* that are active at the click: the BGR planes of the held result are those
\* of the present render.
C30_ConfirmAgainstRunInput ==
    [][(RemoveApplyClicked /\ win'.base_images # win.base_images) =>
          win.remove_preview_bgra.data = split_bgra(_render_current_preview(win))[1].data]_vars

\* C31: once an image is loaded, the active base index is the base index of
\* the snapshot at the cursor, and the base index of every snapshot is an
\* index into the layer stack.
C31_ActiveIndexAtCursor ==
    (pc = "shown" /\ win.base_idx >= 0) =>
        /\ win.history # <<>>
        /\ win.base_idx = AtCursor(win).base_idx
        /\ win.base_idx < Len(win.base_images)
        /\ \A i \in 1..Len(win.history) :
              win.history[i].base_idx \in 0..(Len(win.base_images) - 1)

\* an undo went back over a committed layer: the cursor and the active index
\* are below the last snapshot and the last layer
C31_Witness ==
    /\ pc = "shown" /\ win.base_idx >= 0
    /\ Len(win.base_images) >= 2 /\ win.base_idx < Len(win.base_images) - 1
    /\ win.hist_idx < Len(win.history) - 1
    /\ win.base_idx = AtCursor(win).base_idx
    /\ win.history[Len(win.history)].base_idx = Len(win.base_images) - 1

\* C32: while no image is loaded (active base index -1) the history is empty
\* and the cursor is -1, and no stored snapshot has a base index outside the
\* layer stack.
C32_NoHistoryWithoutImage ==
    /\ (pc = "shown" /\ win.base_idx = -1) => (win.history = <<>> /\ win.hist_idx = -1)
    /\ \A i \in 1..Len(win.history) :
          win.history[i].base_idx \in 0..(Len(win.base_images) - 1)

\* C33: the cancel flag is set only while a removal is running; a Cancel
\* when none is running changes nothing; a Start that starts a run leaves the
\* flag clear, and so does the delivery of a completion; a run that finishes
\* with the flag clear has its result held, whatever was cancelled before.
C33_CancelFlagOnlyWhileRunning ==
    /\ [](win.remove_cancelled => win.remove_running)
    /\ [](~win.remove_running => _on_removebg_cancel(win) = win)
    /\ [][(RemoveStartClicked /\ win' # win) =>
             (win'.remove_running /\ ~win'.remove_cancelled)]_vars
    /\ [][(DeliverFinished \/ DeliverError) =>
             (~win'.remove_running /\ ~win'.remove_cancelled)]_vars
    /\ [][(DeliverFinished /\ ~win.remove_cancelled) =>
             /\ win'.remove_preview_bgra = win.remove_worker.out
             /\ win'.remove_preview_bgra # NoneArr
             /\ win'.remove_status = "Done"]_vars

\* a cancelled run has completed: the flag is clear again and nothing runs
C33_Witness ==
    /\ pc = "shown" /\ win.base_idx >= 0
    /\ win.remove_status = "Cancelled"
    /\ ~win.remove_cancelled /\ ~win.remove_running /\ ~win.ui_locked
    /\ win.remove_worker = NoWorker

\* C34: under the scheduling of the worker thread and the event loop, a
\* running removal leads to a state with no removal running and the controls
\* unlocked, cancelled or not; the worker of a run delivers one completion:
\* the delivery ends the run and leaves no worker, and with no worker nothing
\* is delivered until a Start makes a new one.
C34_RemovalTerminates ==
    /\ (win.remove_running ~> (~win.remove_running /\ ~win.ui_locked))
    /\ ((win.remove_running /\ win.remove_cancelled)
           ~> (~win.remove_running /\ ~win.ui_locked /\ ~win.remove_cancelled))
    /\ [][(DeliverFinished \/ DeliverError) =>
             /\ win.remove_running /\ win.ui_locked
             /\ ~win'.remove_running /\ ~win'.ui_locked
             /\ win'.remove_worker = NoWorker]_vars
    /\ [](win.remove_worker = NoWorker =>
             ~(ENABLED DeliverFinished) /\ ~(ENABLED DeliverError))
    /\ [][(win.remove_worker = NoWorker /\ win'.remove_worker # NoWorker) =>
             (RemoveStartClicked /\ win'.remove_worker.state = "running")]_vars

\* a removal whose cancellation was requested has ended at the last event the
\* bound allows
C34_Witness ==
    /\ pc = "shown" /\ steps = MaxSteps
    /\ win.remove_status = "Cancelled"
    /\ ~win.remove_running /\ ~win.ui_locked /\ win.remove_worker = NoWorker

\* C35: a confirm that commits leaves nothing to commit again.  After the
\* removal Confirm the held result is None, its dirty flag is clear, the
\* button is disabled and a second _apply_removebg changes nothing; after the
\* crop Confirm the crop rect is disabled in the params and cleared on the
\* label, its dirty flag is clear, the button is disabled and a second
\* _apply_crop changes nothing.  Each commit adds one layer and one snapshot.
C35_CommitAtMostOnce ==
    /\ [][(RemoveApplyClicked /\ win' # win) =>
             /\ Len(win'.base_images) = Len(win.base_images) + 1
             /\ win'.hist_idx = win.hist_idx + 1
             /\ win'.remove_preview_bgra = NoneArr /\ ~win'.remove_dirty
             /\ ~win'.remove_apply_enabled
             /\ _apply_removebg(win') = win']_vars
    /\ [][(CropApplyClicked /\ win' # win) =>
             /\ Len(win'.base_images) = Len(win.base_images) + 1
             /\ win'.hist_idx = win.hist_idx + 1
             /\ ~_can_apply_crop(win') /\ ~win'.crop_dirty
             /\ win'.stage_label.crop_rect = NullRect
             /\ ~win'.crop_apply_enabled
             /\ _apply_crop(win') = win']_vars

\* both confirms have committed: three layers, nothing held, no crop rect
C35_Witness ==
    /\ pc = "shown" /\ Len(win.base_images) = 3 /\ win.base_idx = 2
    /\ win.base_images[2].C # win.base_images[3].C \/ win.base_images[2].W # win.base_images[3].W
    /\ win.remove_preview_bgra = NoneArr /\ ~win.params.crop.enabled
    /\ ~win.remove_apply_enabled /\ ~win.crop_apply_enabled
    /\ \E i \in 1..Len(win.base_images[3].data) : win.base_images[3].data[i].op = "crop"

\* C36: a step leaves every stored snapshot as it was stored: the history
\* after it is the history before it, or a prefix of that history with one
\* new snapshot appended; an undo or a redo leaves the whole list as it is.
\* Restoring the snapshot at the cursor twice over the live edits makes the
\* live pair the stored pair and leaves the list as it is.
C36_SnapshotsImmutable ==
    /\ [][pc = "shown" =>
             \/ win'.history = win.history
             \/ /\ win'.history # <<>>
                /\ Len(win'.history) <= Len(win.history) + 1
                /\ SubSeq(win'.history, 1, Len(win'.history) - 1)
                      = SubSeq(win.history, 1, Len(win'.history) - 1)
                /\ win'.hist_idx = Len(win'.history) - 1]_vars
    /\ [][(win'.history # win.history) => ~(UndoClicked \/ RedoClicked)]_vars
    /\ []((pc = "shown" /\ win.hist_idx >= 0) =>
             LET twice == _restore_history(_restore_history(win, win.hist_idx), win.hist_idx)
             IN <<twice.history, twice.base_idx, twice.params>>
                   = <<win.history, AtCursor(win).base_idx, AtCursor(win).params>>)

\* the live crop rect and a slider differ from the snapshot at the cursor,
\* which still holds the values it was stored with, after an undo
C36_Witness ==
    /\ pc = "shown" /\ win.base_idx >= 0
    /\ win.hist_idx >= 0 /\ win.hist_idx < Len(win.history) - 1
    /\ win.params.crop.enabled /\ ~AtCursor(win).params.crop.enabled
    /\ win.params.brightness # AtCursor(win).params.brightness

\* C37: once an image is loaded the history is not empty and the cursor is
\* an index of it; with the cursor at 0 an undo changes nothing and the Undo
\* button is disabled, with the cursor at the last index a redo changes
\* nothing and the Redo button is disabled.
C37_CursorInRange ==
    (pc = "shown" /\ win.base_idx >= 0) =>
        /\ Len(win.history) >= 1
        /\ win.hist_idx \in 0..(Len(win.history) - 1)
        /\ win.hist_idx = 0 => (_undo(win) = win /\ ~win.undo_enabled)
        /\ win.hist_idx = Len(win.history) - 1 => (_redo(win) = win /\ ~win.redo_enabled)

\* undos have brought the cursor to the first of three snapshots
C37_Witness ==
    /\ pc = "shown" /\ win.base_idx >= 0
    /\ Len(win.history) >= 3 /\ win.hist_idx = 0
    /\ ~win.undo_enabled /\ win.redo_enabled /\ ~win.ui_locked
    /\ _undo(win) = win

\* C38: the kernel size of denoise and blur for a value v of 1..100 is
\* max(1, (v div 10)*2 + 1): odd, at least 1, and 2 more for v + 10; the
\* cleanup and feather kernels of the segmentation are
\* max(3, (min(W,H) div 100) | 1) and its erosion kernel is
\* max(3, (k div 2) | 1): each odd and at least 3.
C38_KernelSizesOdd ==
    /\ (call.fn = "KernelSize" /\ call.done) =>
          /\ call.out = Max2(1, (call.v \div 10) * 2 + 1)
          /\ call.out % 2 = 1 /\ call.out >= 1
          /\ KernelSize(call.v + 10) = call.out + 2
          /\ call.v % 10 # 9 => KernelSize(call.v + 1) = call.out
    /\ (call.fn = "RefineKernels" /\ call.done) =>
          LET m == Min2(call.W, call.H) \div 100
              k == Max2(3, IF m % 2 = 1 THEN m ELSE m + 1)
              e == Max2(3, IF (k \div 2) % 2 = 1 THEN k \div 2 ELSE k \div 2 + 1)
          IN /\ call.out = <<k, e, k>>
             /\ \A i \in 1..3 : call.out[i] % 2 = 1 /\ call.out[i] >= 3

\* a frame of 1200 by 1300: kernels 13, 7 and 13
C38_Witness ==
    /\ call.fn = "RefineKernels" /\ call.done
    /\ call.W = 1200 /\ call.H = 1300
    /\ call.out = <<13, 7, 13>>

====
